---- MODULE Spec2Model ----
(***************************************************************************)
(* Stacker (GEEFetcher.fetch_temporal_stack) and Brain                     *)
(* (CropClassifier.predict) of the crop classification system.             *)
(*                                                                         *)
(* Representation.  A band grid is a function band -> row of pixels; the   *)
(* H x W grid of the code is flattened to one row of ImgSize pixels.  Raw  *)
(* pixels are sensor integers; scaled pixels (raw / 10000, clipped to      *)
(* [0, 1]) are kept in units of 1/10000, so 0.001 is 10 and 1.0 is 10000.  *)
(* Probabilities and confidences are integer percents.                     *)
(***************************************************************************)
EXTENDS Integers, Sequences, FiniteSets, TLC

\* ------------------------------------------------------------------ bounds
\* Pixels per band row (IMAGE_SIZE = (64, 64) in the code).
ImgSize == 2
\* Query years are MIN_YEAR .. MIN_YEAR + YearSpan.
YearSpan == 0
\* Probabilities fed to the Brain are multiples of ProbStep percent.
ProbStep == 10
\* Softmax outputs of the four ensemble passes are multiples of TtaStep percent.
TtaStep == 50

\* --------------------------------------------------------- program constants
NUM_BANDS == 4
NUM_MONTHS == 6
NUM_CHANNELS == NUM_BANDS * NUM_MONTHS
MIN_YEAR == 2022
MIN_MONTHS_FOR_V4 == 5
HIGH_CONFIDENCE_THRESHOLD == 85
MEDIUM_CONFIDENCE_THRESHOLD == 70

CLASS_NAMES == <<"Other", "Rice", "Wheat">>
NUM_CLASSES == 3
IDX_TO_CLASS(i) == CLASS_NAMES[i + 1]

RICE_SEASON_months == <<5, 6, 7, 8, 9, 10>>
WHEAT_SEASON_months == <<11, 12, 1, 2, 3, 4>>

Bands == 1..NUM_BANDS
Slots == 0..(NUM_MONTHS - 1)
Channels == 0..(NUM_CHANNELS - 1)

SeqToSet(s) == {s[i] : i \in 1..Len(s)}

RECURSIVE SumSeq(_)
SumSeq(s) == IF s = <<>> THEN 0 ELSE s[1] + SumSeq(Tail(s))

MaxOf(S) == CHOOSE x \in S : \A y \in S : y <= x

\* ------------------------------------------------------------ Season Calendar
get_season_for_month(month) ==
    IF month \in SeqToSet(RICE_SEASON_months) THEN "Rice" ELSE "Wheat"

get_growth_stage(crop, month) ==
    IF crop = "Rice" THEN
        CASE month = 5 -> "Land Preparation / Nursery"
          [] month = 6 -> "Transplanting"
          [] month = 7 -> "Tillering"
          [] month = 8 -> "Tillering / Panicle Initiation"
          [] month = 9 -> "Flowering / Grain Filling"
          [] month = 10 -> "Grain Filling / Maturity"
          [] OTHER -> "Off-season"
    ELSE IF crop = "Wheat" THEN
        CASE month = 11 -> "Sowing / Germination"
          [] month = 12 -> "Seedling / Crown Root"
          [] month = 1 -> "Tillering"
          [] month = 2 -> "Stem Extension / Booting"
          [] month = 3 -> "Heading / Flowering"
          [] month = 4 -> "Grain Filling / Maturity"
          [] OTHER -> "Off-season"
    ELSE "Unknown"

\* (mutant) the two seasons' lists swapped
get_valid_crops_for_seasonSwapped(month) ==
    IF month \in SeqToSet(RICE_SEASON_months)
    THEN <<"Wheat", "Other">>
    ELSE <<"Rice", "Other">>

get_valid_crops_for_season(month) ==
    IF month \in SeqToSet(RICE_SEASON_months)
    THEN <<"Rice", "Other">>
    ELSE <<"Wheat", "Other">>

is_crop_valid_for_season(crop, month) ==
    crop \in SeqToSet(get_valid_crops_for_season(month))

get_season_info_name(month) ==
    IF get_season_for_month(month) = "Rice" THEN "Rice (Kharif)" ELSE "Wheat (Rabi)"

\* (mutant) the wheat months numbered in calendar order, January first
get_season_month_mappingCalendarOrder(season) ==
    IF season = "Rice"
    THEN [m \in {5, 6, 7, 8, 9, 10} |-> m - 5]
    ELSE [m \in {11, 12, 1, 2, 3, 4} |-> IF m >= 11 THEN m - 7 ELSE m - 1]

\* month -> slot of a season
get_season_month_mapping(season) ==
    IF season = "Rice"
    THEN [m \in {5, 6, 7, 8, 9, 10} |-> m - 5]
    ELSE [m \in {11, 12, 1, 2, 3, 4} |-> IF m >= 11 THEN m - 11 ELSE m + 1]

\* datetime comparison a <= b on [year, month, day] (times of day are midnight)
DateLeq(a, b) ==
    \/ a.year < b.year
    \/ a.year = b.year /\ a.month < b.month
    \/ a.year = b.year /\ a.month = b.month /\ a.day <= b.day

\* (mutant) the rice loop without `if m <= month`
RECURSIVE SelectRiceWholeSeason(_, _, _, _)
SelectRiceWholeSeason(season_months, month, year, map) ==
    IF season_months = <<>> THEN <<>>
    ELSE LET m == Head(season_months)
         IN <<[year |-> year, month |-> m, slot |-> map[m]]>>
            \o SelectRiceWholeSeason(Tail(season_months), month, year, map)

RECURSIVE SelectRice(_, _, _, _)
SelectRice(season_months, month, year, map) ==
    IF season_months = <<>> THEN <<>>
    ELSE LET m == Head(season_months)
             rest == SelectRice(Tail(season_months), month, year, map)
         IN IF m <= month
            THEN <<[year |-> year, month |-> m, slot |-> map[m]]>> \o rest
            ELSE rest

\* (mutant) the wheat loop without `if m_date <= query_date`
RECURSIVE SelectWheatWholeSeason(_, _, _)
SelectWheatWholeSeason(season_months, query_date, map) ==
    IF season_months = <<>> THEN <<>>
    ELSE LET e == Head(season_months)
         IN <<[year |-> e[1], month |-> e[2], slot |-> map[e[2]]]>>
            \o SelectWheatWholeSeason(Tail(season_months), query_date, map)

RECURSIVE SelectWheat(_, _, _)
SelectWheat(season_months, query_date, map) ==
    IF season_months = <<>> THEN <<>>
    ELSE LET e == Head(season_months)
             m_date == [year |-> e[1], month |-> e[2], day |-> 15]
             rest == SelectWheat(Tail(season_months), query_date, map)
         IN IF DateLeq(m_date, query_date)
            THEN <<[year |-> e[1], month |-> e[2], slot |-> map[e[2]]]>> \o rest
            ELSE rest

\* (mutant) the wheat season always started in the query's year
get_months_to_fetchSameYear(query_date, season) ==
    LET month == query_date.month
        year == query_date.year
        month_to_slot == get_season_month_mapping(season)
    IN IF season = "Rice"
       THEN SelectRice(<<5, 6, 7, 8, 9, 10>>, month, year, month_to_slot)
       ELSE LET wheat_start_year == year
                season_months ==
                    << <<wheat_start_year, 11>>, <<wheat_start_year, 12>>,
                       <<wheat_start_year + 1, 1>>, <<wheat_start_year + 1, 2>>,
                       <<wheat_start_year + 1, 3>>, <<wheat_start_year + 1, 4>> >>
            IN SelectWheat(season_months, query_date, month_to_slot)

get_months_to_fetch(query_date, season) ==
    LET month == query_date.month
        year == query_date.year
        month_to_slot == get_season_month_mapping(season)
    IN IF season = "Rice"
       THEN SelectRice(<<5, 6, 7, 8, 9, 10>>, month, year, month_to_slot)
       ELSE LET wheat_start_year == IF month >= 11 THEN year ELSE year - 1
                season_months ==
                    << <<wheat_start_year, 11>>, <<wheat_start_year, 12>>,
                       <<wheat_start_year + 1, 1>>, <<wheat_start_year + 1, 2>>,
                       <<wheat_start_year + 1, 3>>, <<wheat_start_year + 1, 4>> >>
            IN SelectWheat(season_months, query_date, month_to_slot)

\* ------------------------------------------------------------------ band grids
ZeroRow(n) == [i \in 1..n |-> 0]
ZeroGrid(n) == [b \in Bands |-> ZeroRow(n)]
GridSize(g) == Len(g[1])
GridPixels(g) == {g[b][i] : b \in Bands, i \in 1..GridSize(g)}

ZeroStack == [c \in Channels |-> ZeroRow(ImgSize)]
ZeroMask == [s \in Slots |-> 0]

\* np.max / np.sum over the whole 4-band grid
DataMax(g) == MaxOf(GridPixels(g))
DataSum(g) == SumSeq([b \in Bands |-> SumSeq(g[b])])

\* PIL resize of one band row to `t` pixels, BILINEAR: linear interpolation
\* between the two nearest source pixels (pixel centres aligned), in integer
\* arithmetic.
ResizeRow(row, t) ==
    LET n == Len(row)
        At(j) ==
            LET num == (2 * (j - 1) + 1) * n - t
                i0 == IF num < 0 THEN 0 ELSE num \div (2 * t)
                fr == IF num < 0 THEN 0 ELSE num % (2 * t)
                i1 == IF i0 + 1 >= n THEN n - 1 ELSE i0 + 1
            IN (row[i0 + 1] * (2 * t - fr) + row[i1 + 1] * fr) \div (2 * t)
    IN [j \in 1..t |-> At(j)]

ResizeGrid(g) ==
    IF GridSize(g) # ImgSize
    THEN [b \in Bands |-> ResizeRow(g[b], ImgSize)]
    ELSE g

\* month_data / 10000.0 then np.clip(month_data, 0, 1), in units of 1/10000
Clip(v) == IF v < 0 THEN 0 ELSE IF v > 10000 THEN 10000 ELSE v
Normalize(g) == [b \in Bands |-> [i \in 1..GridSize(g) |-> Clip(g[b][i])]]

\* the extraction strategies _image_to_array tries, in order: one,
\* image.sampleRectangle over the region
image_to_array_strategies == <<"sampleRectangle">>

\* _image_to_array: the sampled bands stacked, or zeros when sampling raised
image_to_array(sample) ==
    IF sample.ok THEN sample.grid ELSE ZeroGrid(ImgSize)

\* NDVI of the latest month's data, mean over pixels, in 1/1000
\* ((nir - red) / (nir + red + 1e-10); 0 where nir + red = 0)
NdviOf(data) ==
    LET nir == data[4]
        red == data[3]
        px(i) == IF nir[i] + red[i] = 0 THEN 0
                 ELSE ((nir[i] - red[i]) * 1000) \div (nir[i] + red[i])
    IN SumSeq([i \in 1..Len(nir) |-> px(i)]) \div Len(nir)

\* what the imagery provider can answer for one month
RampRow(n, lo, step) == [i \in 1..n |-> lo + (i - 1) * step]
ProviderGrids ==
    { ZeroGrid(ImgSize),
      [b \in Bands |-> RampRow(ImgSize, 3, 2)],
      [b \in Bands |-> RampRow(ImgSize, 600 * b, 150)],
      [b \in Bands |-> IF b = 4 THEN ZeroRow(ImgSize) ELSE RampRow(ImgSize, 400 * b, 90)],
      [b \in Bands |-> RampRow(ImgSize + 1, 9000, 700 * b)] }

ProviderOutcomes ==
    { [composite |-> "none", sample |-> [ok |-> FALSE, grid |-> ZeroGrid(ImgSize)]],
      [composite |-> "error", sample |-> [ok |-> FALSE, grid |-> ZeroGrid(ImgSize)]],
      [composite |-> "image", sample |-> [ok |-> FALSE, grid |-> ZeroGrid(ImgSize)]] }
    \cup { [composite |-> "image", sample |-> [ok |-> TRUE, grid |-> g]] : g \in ProviderGrids }

QueryDates ==
    { [year |-> y, month |-> m, day |-> d] :
        y \in MIN_YEAR..(MIN_YEAR + YearSpan), m \in 1..12, d \in {14, 15} }

\* ------------------------------------------------------------------- Brain
ClassSet == SeqToSet(CLASS_NAMES)
CLASS_TO_IDX(name) == CHOOSE i \in 0..(NUM_CLASSES - 1) : IDX_TO_CLASS(i) = name

\* softmax outputs of one forward pass, indexed by class index + 1 (percent)
ProbGrid == {p \in 0..100 : p % ProbStep = 0}
ProbVectors ==
    { <<ab[1], ab[2], 100 - ab[1] - ab[2]>> :
        ab \in {x \in ProbGrid \X ProbGrid : x[1] + x[2] <= 100} }
OneHotVectors == { [i \in 1..NUM_CLASSES |-> IF i = k THEN 100 ELSE 0] : k \in 1..NUM_CLASSES }

\* the model's answers to the forward passes of one call: one pass without
\* TTA, one per variant with TTA (each variant answers with a one-hot vector)
ModelOutputs(use_tta) ==
    IF use_tta
    THEN [1..4 -> OneHotVectors]
    ELSE { <<p>> : p \in ProbVectors }

\* _apply_tta: the original and its three transforms, by name
apply_tta == <<"original", "hflip", "vflip", "rot90">>

RECURSIVE SumVectors(_)
SumVectors(outs) ==
    IF Len(outs) = 1 THEN outs[1]
    ELSE LET rest == SumVectors(Tail(outs))
         IN [i \in 1..NUM_CLASSES |-> outs[1][i] + rest[i]]

\* (mutant) probs_sum = probs in every pass: the sum is overwritten, not
\* accumulated
AverageProbsLastPass(outs, use_tta) ==
    IF use_tta
    THEN LET probs_sum == outs[Len(outs)]
         IN [i \in 1..NUM_CLASSES |-> probs_sum[i] \div Len(apply_tta)]
    ELSE outs[1]

\* probs_sum / len(tta_variants), or the single softmax output
AverageProbs(outs, use_tta) ==
    IF use_tta
    THEN LET probs_sum == SumVectors(outs)
         IN [i \in 1..NUM_CLASSES |-> probs_sum[i] \div Len(apply_tta)]
    ELSE outs[1]

\* torch.max(avg_probs, dim=1): the maximum and the first index holding it
TorchMaxIdx(avg_probs) ==
    CHOOSE i \in 0..(NUM_CLASSES - 1) :
        /\ \A j \in 0..(NUM_CLASSES - 1) : avg_probs[j + 1] <= avg_probs[i + 1]
        /\ \A j \in 0..(NUM_CLASSES - 1) : j < i => avg_probs[j + 1] < avg_probs[i + 1]

\* (mutant) the maximum taken over all classes, not over the valid ones
MaxValidClassUnfiltered(probabilities, valid_crops) ==
    LET keys == 0..(NUM_CLASSES - 1)
        best == CHOOSE i \in keys :
                  /\ \A j \in keys : probabilities[IDX_TO_CLASS(j)] <= probabilities[IDX_TO_CLASS(i)]
                  /\ \A j \in keys : j < i => probabilities[IDX_TO_CLASS(j)] < probabilities[IDX_TO_CLASS(i)]
    IN IDX_TO_CLASS(best)

\* (mutant) ties between valid classes go to the last key, not the first
MaxValidClassLastMax(probabilities, valid_crops) ==
    LET keys == {i \in 0..(NUM_CLASSES - 1) : IDX_TO_CLASS(i) \in SeqToSet(valid_crops)}
        best == CHOOSE i \in keys :
                  /\ \A j \in keys : probabilities[IDX_TO_CLASS(j)] <= probabilities[IDX_TO_CLASS(i)]
                  /\ \A j \in keys : j > i => probabilities[IDX_TO_CLASS(j)] < probabilities[IDX_TO_CLASS(i)]
    IN IDX_TO_CLASS(best)

\* max(valid_probs, key=valid_probs.get): the first key, in the dictionary's
\* insertion order (class index order), whose value is the maximum
MaxValidClass(probabilities, valid_crops) ==
    LET keys == {i \in 0..(NUM_CLASSES - 1) : IDX_TO_CLASS(i) \in SeqToSet(valid_crops)}
        best == CHOOSE i \in keys :
                  /\ \A j \in keys : probabilities[IDX_TO_CLASS(j)] <= probabilities[IDX_TO_CLASS(i)]
                  /\ \A j \in keys : j < i => probabilities[IDX_TO_CLASS(j)] < probabilities[IDX_TO_CLASS(i)]
    IN IDX_TO_CLASS(best)

\* (mutant) the valid branch missing: every prediction is re-ranked and
\* reported as adjusted
validate_predictionAlwaysAdjusts(predicted_class, probabilities, month) ==
    LET valid_crops == get_valid_crops_for_season(month)
        season_name == get_season_info_name(month)
        adjusted_class == MaxValidClass(probabilities, valid_crops)
    IN [ keys |-> {"original_prediction", "is_seasonally_valid", "season", "valid_crops",
                   "validation_message", "final_prediction", "was_adjusted",
                   "adjustment_reason", "adjusted_confidence"},
         original_prediction |-> predicted_class,
         is_seasonally_valid |-> is_crop_valid_for_season(predicted_class, month),
         season |-> season_name,
         valid_crops |-> valid_crops,
         final_prediction |-> adjusted_class,
         was_adjusted |-> TRUE,
         adjustment_reason |-> <<predicted_class, "invalid for", season_name,
                                 "season. Adjusted to", adjusted_class>>,
         adjusted_confidence |-> probabilities[adjusted_class] ]

\* SeasonValidator.validate_prediction.  `keys` lists the keys the returned
\* dictionary holds; adjustment_reason <<>> is None; a field whose key is
\* absent holds a filler.
validate_prediction(predicted_class, probabilities, month) ==
    LET valid_crops == get_valid_crops_for_season(month)
        season_name == get_season_info_name(month)
        is_valid == is_crop_valid_for_season(predicted_class, month)
        base_keys == {"original_prediction", "is_seasonally_valid", "season", "valid_crops",
                      "validation_message", "final_prediction", "was_adjusted",
                      "adjustment_reason"}
        valid_probs == {c \in ClassSet : c \in SeqToSet(valid_crops)}
    IN IF is_valid
       THEN [ keys |-> base_keys,
              original_prediction |-> predicted_class,
              is_seasonally_valid |-> TRUE,
              season |-> season_name,
              valid_crops |-> valid_crops,
              final_prediction |-> predicted_class,
              was_adjusted |-> FALSE,
              adjustment_reason |-> <<>>,
              adjusted_confidence |-> 0 ]
       ELSE IF valid_probs # {}
       THEN LET adjusted_class == MaxValidClass(probabilities, valid_crops)
            IN [ keys |-> base_keys \cup {"adjusted_confidence"},
                 original_prediction |-> predicted_class,
                 is_seasonally_valid |-> FALSE,
                 season |-> season_name,
                 valid_crops |-> valid_crops,
                 final_prediction |-> adjusted_class,
                 was_adjusted |-> TRUE,
                 adjustment_reason |-> <<predicted_class, "invalid for", season_name,
                                         "season. Adjusted to", adjusted_class>>,
                 adjusted_confidence |-> probabilities[adjusted_class] ]
       ELSE [ keys |-> base_keys,
              original_prediction |-> predicted_class,
              is_seasonally_valid |-> FALSE,
              season |-> season_name,
              valid_crops |-> valid_crops,
              final_prediction |-> "Other",
              was_adjusted |-> TRUE,
              adjustment_reason |-> <<"Defaulting to 'Other'">>,
              adjusted_confidence |-> 0 ]

\* the record predict builds when season validation is disabled
ValidationDisabled ==
    [ keys |-> {"is_seasonally_valid", "was_adjusted", "validation_message"},
      original_prediction |-> "",
      is_seasonally_valid |-> TRUE,
      season |-> "",
      valid_crops |-> <<>>,
      final_prediction |-> "",
      was_adjusted |-> FALSE,
      adjustment_reason |-> <<>>,
      adjusted_confidence |-> 0 ]

\* (mutant) the thresholds of the full-season case used for every count
get_confidence_levelFlat(confidence, months_available) ==
    IF confidence >= HIGH_CONFIDENCE_THRESHOLD THEN "high"
    ELSE IF confidence >= MEDIUM_CONFIDENCE_THRESHOLD THEN "medium"
    ELSE "low"

\* (mutant) the thresholds loosened, not tightened, as months go missing
get_confidence_levelInverted(confidence, months_available) ==
    LET high_thresh == IF months_available >= 5 THEN 95
                       ELSE IF months_available >= 3 THEN 90 ELSE HIGH_CONFIDENCE_THRESHOLD
        med_thresh == IF months_available >= 5 THEN 80
                      ELSE IF months_available >= 3 THEN 75 ELSE MEDIUM_CONFIDENCE_THRESHOLD
    IN IF confidence >= high_thresh THEN "high"
       ELSE IF confidence >= med_thresh THEN "medium"
       ELSE "low"

\* (mutant) the partial-data thresholds applied from 4 months down
get_confidence_levelLateTightening(confidence, months_available) ==
    LET high_thresh == IF months_available >= 5 THEN HIGH_CONFIDENCE_THRESHOLD
                       ELSE IF months_available >= 3 THEN 90 ELSE 90
        med_thresh == IF months_available >= 5 THEN MEDIUM_CONFIDENCE_THRESHOLD
                      ELSE IF months_available >= 3 THEN 75 ELSE 75
    IN IF confidence >= high_thresh THEN "high"
       ELSE IF confidence >= med_thresh THEN "medium"
       ELSE "low"

\* CropClassifier._get_confidence_level (confidence in percent)
get_confidence_level(confidence, months_available) ==
    LET high_thresh == IF months_available >= 5 THEN HIGH_CONFIDENCE_THRESHOLD
                       ELSE IF months_available >= 3 THEN 90 ELSE 95
        med_thresh == IF months_available >= 5 THEN MEDIUM_CONFIDENCE_THRESHOLD
                      ELSE IF months_available >= 3 THEN 75 ELSE 80
    IN IF confidence >= high_thresh THEN "high"
       ELSE IF confidence >= med_thresh THEN "medium"
       ELSE "low"

\* (mutant) the full-season model only above MIN_MONTHS_FOR_V4 months
SelectModelStrictlyAbove(months_available, v4_loaded, v6_loaded) ==
    IF months_available > MIN_MONTHS_FOR_V4 /\ v4_loaded
    THEN [model |-> "model_v4", model_name |-> "V4", use_mask |-> FALSE,
          log |-> [level |-> "info", msg |-> "months >= MIN_MONTHS_FOR_V4 -> Using V4"]]
    ELSE IF v6_loaded
    THEN [model |-> "model_v6", model_name |-> "V6", use_mask |-> TRUE,
          log |-> [level |-> "info", msg |-> "months < MIN_MONTHS_FOR_V4 -> Using V6 with mask"]]
    ELSE IF v4_loaded
    THEN [model |-> "model_v4", model_name |-> "V4", use_mask |-> FALSE,
          log |-> [level |-> "warning", msg |-> "V6 unavailable, falling back to V4"]]
    ELSE [model |-> "raise", model_name |-> "", use_mask |-> FALSE,
          log |-> [level |-> "none", msg |-> ""]]

\* (mutant) the fallback branch logging like the normal V4 branch
SelectModelSilentFallback(months_available, v4_loaded, v6_loaded) ==
    IF months_available >= MIN_MONTHS_FOR_V4 /\ v4_loaded
    THEN [model |-> "model_v4", model_name |-> "V4", use_mask |-> FALSE,
          log |-> [level |-> "info", msg |-> "months >= MIN_MONTHS_FOR_V4 -> Using V4"]]
    ELSE IF v6_loaded
    THEN [model |-> "model_v6", model_name |-> "V6", use_mask |-> TRUE,
          log |-> [level |-> "info", msg |-> "months < MIN_MONTHS_FOR_V4 -> Using V6 with mask"]]
    ELSE IF v4_loaded
    THEN [model |-> "model_v4", model_name |-> "V4", use_mask |-> FALSE,
          log |-> [level |-> "info", msg |-> "months >= MIN_MONTHS_FOR_V4 -> Using V4"]]
    ELSE [model |-> "raise", model_name |-> "", use_mask |-> FALSE,
          log |-> [level |-> "none", msg |-> ""]]

\* the model-selection chain of predict; `model` is the attribute whose
\* network is run, "raise" the RuntimeError of the last branch
SelectModel(months_available, v4_loaded, v6_loaded) ==
    IF months_available >= MIN_MONTHS_FOR_V4 /\ v4_loaded
    THEN [model |-> "model_v4", model_name |-> "V4", use_mask |-> FALSE,
          log |-> [level |-> "info", msg |-> "months >= MIN_MONTHS_FOR_V4 -> Using V4"]]
    ELSE IF v6_loaded
    THEN [model |-> "model_v6", model_name |-> "V6", use_mask |-> TRUE,
          log |-> [level |-> "info", msg |-> "months < MIN_MONTHS_FOR_V4 -> Using V6 with mask"]]
    ELSE IF v4_loaded
    THEN [model |-> "model_v4", model_name |-> "V4", use_mask |-> FALSE,
          log |-> [level |-> "warning", msg |-> "V6 unavailable, falling back to V4"]]
    ELSE [model |-> "raise", model_name |-> "", use_mask |-> FALSE,
          log |-> [level |-> "none", msg |-> ""]]

data_quality_of(months_available) ==
    IF months_available >= 5 THEN "Excellent - Full seasonal data"
    ELSE IF months_available >= 4 THEN "Good - Most seasonal data"
    ELSE IF months_available >= 3 THEN "Moderate - Partial data"
    ELSE "Limited - Insufficient for reliable classification"

MaskSum(mask) == SumSeq([i \in 1..NUM_MONTHS |-> mask[i - 1]])

\* (mutant) the confidence of the raw arg-max is kept after an adjustment
AdjustedConfidenceKeepsRaw(validation_result, probabilities, final_prediction, confidence) ==
    confidence

\* validation_result.get('adjusted_confidence',
\*                       probabilities.get(final_prediction, confidence))
AdjustedConfidence(validation_result, probabilities, final_prediction, confidence) ==
    IF "adjusted_confidence" \in validation_result.keys
    THEN validation_result.adjusted_confidence
    ELSE IF final_prediction \in DOMAIN probabilities
    THEN probabilities[final_prediction]
    ELSE confidence

\* (mutant) the confidence level taken before season validation, from the
\* confidence of the raw arg-max
PredictResultTierBeforeValidation(mask, analysis_month, avg_probs, sel, season_validation_on) ==
    LET months_available == MaskSum(mask)
        raw_confidence == avg_probs[TorchMaxIdx(avg_probs) + 1]
        raw_prediction == IDX_TO_CLASS(TorchMaxIdx(avg_probs))
        probabilities == [c \in ClassSet |-> avg_probs[CLASS_TO_IDX(c) + 1]]
        validation_result ==
            IF season_validation_on
            THEN validate_prediction(raw_prediction, probabilities, analysis_month)
            ELSE ValidationDisabled
        final_prediction ==
            IF season_validation_on THEN validation_result.final_prediction
            ELSE raw_prediction
        confidence ==
            IF season_validation_on /\ validation_result.was_adjusted
            THEN AdjustedConfidence(validation_result, probabilities, final_prediction,
                                    raw_confidence)
            ELSE raw_confidence
    IN [ predicted_class |-> final_prediction,
         raw_prediction |-> raw_prediction,
         class_index |-> CLASS_TO_IDX(final_prediction),
         confidence |-> confidence,
         probabilities |-> probabilities,
         confidence_level |-> get_confidence_level(raw_confidence, months_available),
         model_used |-> sel.model_name,
         months_available |-> months_available,
         availability_mask |-> mask,
         data_quality |-> data_quality_of(months_available),
         analysis_month |-> analysis_month,
         season_validation |-> validation_result ]

\* predict from the softmax outputs on: arg-max, season validation,
\* confidence level, the result dictionary
PredictResult(mask, analysis_month, avg_probs, sel, season_validation_on) ==
    LET months_available == MaskSum(mask)
        raw_confidence == avg_probs[TorchMaxIdx(avg_probs) + 1]
        raw_prediction == IDX_TO_CLASS(TorchMaxIdx(avg_probs))
        probabilities == [c \in ClassSet |-> avg_probs[CLASS_TO_IDX(c) + 1]]
        validation_result ==
            IF season_validation_on
            THEN validate_prediction(raw_prediction, probabilities, analysis_month)
            ELSE ValidationDisabled
        final_prediction ==
            IF season_validation_on THEN validation_result.final_prediction
            ELSE raw_prediction
        confidence ==
            IF season_validation_on /\ validation_result.was_adjusted
            THEN AdjustedConfidence(validation_result, probabilities, final_prediction,
                                    raw_confidence)
            ELSE raw_confidence
    IN [ predicted_class |-> final_prediction,
         raw_prediction |-> raw_prediction,
         class_index |-> CLASS_TO_IDX(final_prediction),
         confidence |-> confidence,
         probabilities |-> probabilities,
         confidence_level |-> get_confidence_level(confidence, months_available),
         model_used |-> sel.model_name,
         months_available |-> months_available,
         availability_mask |-> mask,
         data_quality |-> data_quality_of(months_available),
         analysis_month |-> analysis_month,
         season_validation |-> validation_result ]

\* (mutant) the fallback caches the full-season model as the partial-season
\* model: self.model_v6 = self.model_v4
RegistryAfterPredictCachesFallback(sel, v4_loaded, v6_loaded) ==
    IF sel.log.level = "warning" THEN <<v4_loaded, TRUE>> ELSE <<v4_loaded, v6_loaded>>

\* self.model_v4 / self.model_v6 when predict is over: predict reads the two
\* attributes and assigns neither
RegistryAfterPredict(sel, v4_loaded, v6_loaded) == <<v4_loaded, v6_loaded>>

\* availability masks given to predict: the months present form one run
\* (none, or slots lo..hi)
Masks ==
    {ZeroMask} \cup
    { [s \in Slots |-> IF lo <= s /\ s <= hi THEN 1 ELSE 0] :
        lo \in Slots, hi \in Slots }

\* softmax outputs the model can give for one ensemble variant
TtaGrid == {p \in 0..100 : p % TtaStep = 0}
TtaVectors ==
    { <<ab[1], ab[2], 100 - ab[1] - ab[2]>> :
        ab \in {x \in TtaGrid \X TtaGrid : x[1] + x[2] <= 100} }
TtaVariants == SeqToSet(apply_tta)

\* ----------------------------------------------------------- WeeklyPlanner
\* Indices are in hundredths; the NDVI is given by its distance to the stage's
\* healthy_min (ndvi - healthy_min); an index that was not passed (None) is
\* [given |-> FALSE].
ABSOLUTE_MIN_DAYS == 2
ABSOLUTE_MIN_DAYS_FERT == 5
NoIndex == [given |-> FALSE, value |-> 0]
PlannerCrops == {"Wheat", "Rice"}

\* CROP_CONFIG[crop]['stages'].get(current_month, 'Unknown')
current_stage(crop, month) ==
    IF crop = "Wheat"
    THEN CASE month = 11 -> "Sowing"
           [] month = 12 -> "Crown Root Initiation (CRI)"
           [] month = 1 -> "Tillering"
           [] month = 2 -> "Booting"
           [] month = 3 -> "Heading/Flowering"
           [] month = 4 -> "Grain Filling/Maturity"
           [] OTHER -> "Unknown"
    ELSE CASE month = 5 -> "Nursery/Land Prep"
           [] month = 6 -> "Transplanting"
           [] month = 7 -> "Tillering"
           [] month = 8 -> "Panicle Initiation"
           [] month = 9 -> "Flowering/Grain Fill"
           [] month = 10 -> "Maturity/Harvest"
           [] OTHER -> "Unknown"

\* CROP_CONFIG[crop]['fertilizer_schedule'].get(stage, {'interval': None})
\* ['interval']; 0 stands for None (both are falsy where the value is tested)
fertilizer_interval(crop, stage) ==
    IF crop = "Wheat"
    THEN CASE stage = "Crown Root Initiation (CRI)" -> 25
           [] stage = "Tillering" -> 30
           [] stage = "Booting" -> 35
           [] OTHER -> 0
    ELSE CASE stage = "Tillering" -> 21
           [] stage = "Panicle Initiation" -> 25
           [] stage = "Flowering/Grain Fill" -> 30
           [] OTHER -> 0

\* WeeklyPlanner.assess_health_from_indices
assess_health_from_indices(ndvi_deviation, evi, ndwi, gndvi) ==
    LET by_ndvi ==
            IF ndvi_deviation >= 0
            THEN [status |-> "healthy", urgency |-> "normal",
                  irrigation_priority |-> "standard", fertilizer_priority |-> "standard"]
            ELSE IF ndvi_deviation >= -10
            THEN [status |-> "moderate_stress", urgency |-> "elevated",
                  irrigation_priority |-> "high", fertilizer_priority |-> "medium"]
            ELSE IF ndvi_deviation >= -20
            THEN [status |-> "severe_stress", urgency |-> "high",
                  irrigation_priority |-> "urgent", fertilizer_priority |-> "high"]
            ELSE [status |-> "critical", urgency |-> "critical",
                  irrigation_priority |-> "immediate", fertilizer_priority |-> "urgent"]
        severe_water == ndwi.given /\ ndwi.value < -20
        moderate_water == ndwi.given /\ ~(ndwi.value < -20) /\ ndwi.value < -10
        mild_water == ndwi.given /\ ~(ndwi.value < -10) /\ ndwi.value < 0
        promoted_severe == severe_water /\ by_ndvi.status = "healthy"
        promoted_moderate ==
            moderate_water /\ by_ndvi.status = "healthy" /\ by_ndvi.urgency = "normal"
        status ==
            IF promoted_severe THEN "severe_stress"
            ELSE IF promoted_moderate THEN "moderate_stress"
            ELSE by_ndvi.status
        urgency ==
            IF promoted_severe THEN "high"
            ELSE IF promoted_moderate THEN "elevated"
            ELSE by_ndvi.urgency
        irrigation_priority ==
            IF severe_water THEN "immediate"
            ELSE IF moderate_water
            THEN (IF by_ndvi.irrigation_priority \notin {"urgent", "immediate"}
                  THEN "high" ELSE by_ndvi.irrigation_priority)
            ELSE IF mild_water
            THEN (IF by_ndvi.irrigation_priority = "standard"
                  THEN "high" ELSE by_ndvi.irrigation_priority)
            ELSE by_ndvi.irrigation_priority
        deficiency == gndvi.given /\ gndvi.value < 25
        mild_nutrient == gndvi.given /\ ~(gndvi.value < 25) /\ gndvi.value < 35
        fertilizer_priority ==
            IF deficiency
            THEN (IF by_ndvi.fertilizer_priority \notin {"urgent", "high"}
                  THEN (IF gndvi.value < 20 THEN "urgent" ELSE "high")
                  ELSE by_ndvi.fertilizer_priority)
            ELSE IF mild_nutrient
            THEN (IF by_ndvi.fertilizer_priority = "standard"
                  THEN "medium" ELSE by_ndvi.fertilizer_priority)
            ELSE by_ndvi.fertilizer_priority
        low_biomass == evi.given /\ evi.value < 20 /\ status \in {"severe_stress", "critical"}
        issues ==
            (IF severe_water THEN {"severe_water_stress"} ELSE {})
            \cup (IF moderate_water THEN {"moderate_water_stress"} ELSE {})
            \cup (IF mild_water THEN {"mild_water_stress"} ELSE {})
            \cup (IF deficiency THEN {"nutrient_deficiency"} ELSE {})
            \cup (IF mild_nutrient THEN {"mild_nutrient_stress"} ELSE {})
            \cup (IF low_biomass THEN {"low_biomass"} ELSE {})
    IN [ status |-> status,
         urgency |-> urgency,
         irrigation_priority |-> irrigation_priority,
         fertilizer_priority |-> fertilizer_priority,
         specific_issues |-> issues ]

\* (mutant) the irrigation schedule reports the assessment's own urgency
\* label as its health_urgency
calculate_irrigation_scheduleAssessmentLabel(days_since, health_assessment) ==
    LET urgency_level ==
            IF days_since < ABSOLUTE_MIN_DAYS THEN "none"
            ELSE health_assessment.urgency
    IN [ health_urgency |-> urgency_level,
         status |-> IF urgency_level \in {"immediate", "urgent"} THEN "urgent"
                    ELSE IF urgency_level = "high" THEN "attention_needed" ELSE "on_track",
         health_based_override |-> urgency_level \in {"immediate", "urgent"},
         days_since_last |-> days_since ]

\* WeeklyPlanner.calculate_irrigation_schedule: the urgency decision and the
\* summary fields derived from it
calculate_irrigation_schedule(days_since, health_assessment) ==
    LET irrigation_priority == health_assessment.irrigation_priority
        urgency_level ==
            IF days_since < ABSOLUTE_MIN_DAYS THEN "none"
            ELSE IF irrigation_priority = "immediate" THEN "immediate"
            ELSE IF irrigation_priority = "urgent" THEN "urgent"
            ELSE IF irrigation_priority = "high" THEN "high"
            ELSE "normal"
    IN [ health_urgency |-> urgency_level,
         status |-> IF urgency_level \in {"immediate", "urgent"} THEN "urgent"
                    ELSE IF urgency_level = "high" THEN "attention_needed" ELSE "on_track",
         health_based_override |-> urgency_level \in {"immediate", "urgent"},
         days_since_last |-> days_since ]

\* WeeklyPlanner.calculate_fertilizer_schedule: the urgency decision and the
\* summary fields derived from it
calculate_fertilizer_schedule(days_since, ideal_interval, health_assessment) ==
    LET fertilizer_priority == health_assessment.fertilizer_priority
        status == health_assessment.status
        has_nutrient_issue ==
            health_assessment.specific_issues
                \cap {"nutrient_deficiency", "mild_nutrient_stress"} # {}
        can_fertilize == ~(days_since < ABSOLUTE_MIN_DAYS_FERT)
        urgency_level ==
            IF ~can_fertilize THEN "none"
            ELSE IF fertilizer_priority = "urgent" \/ (has_nutrient_issue /\ status = "critical")
            THEN "urgent"
            ELSE IF fertilizer_priority = "high" \/ has_nutrient_issue THEN "high"
            ELSE IF ideal_interval # 0 /\ days_since >= ideal_interval THEN "normal"
            ELSE "none"
    IN [ health_urgency |-> urgency_level,
         status |-> IF urgency_level = "urgent" THEN "urgent"
                    ELSE IF urgency_level = "high" THEN "attention_needed" ELSE "on_track",
         days_since_last |-> days_since ]

\* the list whose .index is the key of max() in generate_weekly_plan
URGENCY_ORDER == <<"none", "normal", "high", "urgent", "immediate">>

\* list.index(label); -1 stands for the ValueError of a label not in the list
UrgencyIndex(label) ==
    IF \E i \in 1..Len(URGENCY_ORDER) : URGENCY_ORDER[i] = label
    THEN (CHOOSE i \in 1..Len(URGENCY_ORDER) :
            /\ URGENCY_ORDER[i] = label
            /\ \A j \in 1..(i - 1) : URGENCY_ORDER[j] # label) - 1
    ELSE -1

\* max(a, b, key=URGENCY_ORDER.index): the first of the maximal arguments
MaxByUrgencyIndex(a, b) == IF UrgencyIndex(b) > UrgencyIndex(a) THEN b ELSE a

\* the arguments of generate_weekly_plan
PlanNdviDeviations == {-21, -20, -11, -10, -1, 0}
PlanNdwi == {NoIndex} \cup {[given |-> TRUE, value |-> v] : v \in {-21, -20, -11, -10, -1, 0}}
PlanGndvi == {NoIndex} \cup {[given |-> TRUE, value |-> v] : v \in {19, 20, 24, 25, 34, 35}}
PlanEvi == {NoIndex, [given |-> TRUE, value |-> 10]}
PlanDaysSinceIrrigation == {1, 2}
PlanDaysSinceFertilizer == {4, 5, 29, 30}

\* ----------------------------------------------------------------- state
VARIABLES
    initialized,        \* GEEFetcher.initialized
    fetch_pc,           \* "idle", "loop", "done", "raised"
    query_date,         \* the call's query date
    months_to_fetch,    \* the call's enumerated months
    next_month,         \* position of the for loop in months_to_fetch
    image_stack,        \* channel -> row of scaled pixels
    availability_mask,  \* slot -> 0 / 1
    latest_month_data,  \* <<>> (None) or the last grid written
    last_outcome,       \* what the provider answered for the month just processed
    fetch_result,       \* the returned dictionary (meaningful when fetch_pc = "done")
    v4_artifact,        \* the file at v4_path: "missing", "corrupt", "ok"
    v6_artifact,        \* the file at v6_path
    enable_season_validation,
    clf_pc,             \* "new", "ready", "returned", "failed"
    model_v4,           \* TRUE when self.model_v4 is not None
    model_v6,           \* TRUE when self.model_v6 is not None
    predict_run,        \* the forward passes of the last predict call
    predict_log,        \* the model-selection log record of the last predict call
    predict_result,     \* the dictionary predict returned (when clf_pc = "returned")
    cl_confidence,      \* _get_confidence_level: argument confidence (percent)
    cl_months,          \* _get_confidence_level: argument months_available
    cl_level,           \* _get_confidence_level: the value returned, "" before the call
    tta_pc,             \* the ensemble branch of predict: "ready", "done"
    tta_outputs,        \* variant -> softmax output of the model for that variant
    tta_avg_probs,      \* avg_probs after the loop over tta_variants
    tta_predicted_idx,  \* predicted_idx of torch.max(avg_probs)
    conc_calls,         \* concurrent fetch_temporal_stack calls: call -> its locals
    conc_buffers,       \* the arrays the calls allocated: owner -> stack, mask
    plan_pc,            \* WeeklyPlanner: "ready", "returned", "raised"
    plan_crop,          \* WeeklyPlanner.crop
    plan_month,         \* WeeklyPlanner.current_month
    plan_input,         \* the arguments of the generate_weekly_plan call
    plan_result         \* the plan it returned

fetch_vars == <<initialized, fetch_pc, query_date, months_to_fetch, next_month,
                image_stack, availability_mask, latest_month_data, last_outcome,
                fetch_result>>

brain_vars == <<v4_artifact, v6_artifact, enable_season_validation, clf_pc, model_v4,
                model_v6, predict_run, predict_log, predict_result>>

conf_vars == <<cl_confidence, cl_months, cl_level>>

tta_vars == <<tta_pc, tta_outputs, tta_avg_probs, tta_predicted_idx>>

conc_vars == <<conc_calls, conc_buffers>>

plan_vars == <<plan_pc, plan_crop, plan_month, plan_input, plan_result>>

vars == <<fetch_vars, brain_vars, conf_vars, tta_vars, conc_vars, plan_vars>>

NoDate == [year |-> 0, month |-> 0, day |-> 0]
NoOutcome == [composite |-> "unset", sample |-> [ok |-> FALSE, grid |-> ZeroGrid(ImgSize)]]
NoResult ==
    [ image_stack |-> ZeroStack, availability_mask |-> ZeroMask, months_available |-> 0,
      season |-> "", growth_stage |-> "", current_ndvi |-> 0, months_fetched |-> <<>>,
      stack_shape |-> <<0, 0>> ]

\* ------------------------------------------------- GEEFetcher construction
\* __init__ up to the call of _initialize_ee: self.initialized = False
FetcherInit ==
    /\ initialized = FALSE
    /\ fetch_pc = "new"
    /\ query_date = NoDate
    /\ months_to_fetch = <<>>
    /\ next_month = 1
    /\ image_stack = ZeroStack
    /\ availability_mask = ZeroMask
    /\ latest_month_data = <<>>
    /\ last_outcome = NoOutcome
    /\ fetch_result = NoResult

\* (mutant) the authentication error is logged and swallowed: the constructor
\* returns a fetcher that is not initialized
initialize_eeSwallowed ==
    /\ fetch_pc = "new"
    /\ \E auth_ok \in BOOLEAN : initialized' = auth_ok
    /\ fetch_pc' = "idle"
    /\ UNCHANGED <<query_date, months_to_fetch, next_month, image_stack,
                   availability_mask, latest_month_data, last_outcome, fetch_result>>
    /\ UNCHANGED <<brain_vars, conf_vars, tta_vars, conc_vars, plan_vars>>

\* _initialize_ee: ee.Initialize succeeds and the constructor returns, or it
\* raises, initialized is set back to False and the error is re-raised
initialize_ee ==
    /\ fetch_pc = "new"
    /\ \E auth_ok \in BOOLEAN :
        /\ initialized' = auth_ok
        /\ fetch_pc' = IF auth_ok THEN "idle" ELSE "init_raised"
    /\ UNCHANGED <<query_date, months_to_fetch, next_month, image_stack,
                   availability_mask, latest_month_data, last_outcome, fetch_result>>
    /\ UNCHANGED <<brain_vars, conf_vars, tta_vars, conc_vars, plan_vars>>

\* ------------------------------------------------- fetch_temporal_stack
\* entry of the call up to the for loop
FetchStart ==
    /\ fetch_pc = "idle"
    /\ initialized
    /\ \E qd \in QueryDates :
        /\ query_date' = qd
        /\ months_to_fetch' = get_months_to_fetch(qd, get_season_for_month(qd.month))
    /\ next_month' = 1
    /\ image_stack' = ZeroStack
    /\ availability_mask' = ZeroMask
    /\ latest_month_data' = <<>>
    /\ last_outcome' = NoOutcome
    /\ fetch_result' = NoResult
    /\ fetch_pc' = "loop"
    /\ UNCHANGED <<initialized, brain_vars, conf_vars, tta_vars, conc_vars, plan_vars>>

\* the call on a fetcher whose provider connection is missing (the object
\* whose constructor raised): RuntimeError before anything is fetched
FetchNotInitialized ==
    /\ fetch_pc \in {"idle", "init_raised"}
    /\ ~initialized
    /\ fetch_pc' = "raised"
    /\ UNCHANGED <<initialized, query_date, months_to_fetch, next_month, image_stack,
                   availability_mask, latest_month_data, last_outcome, fetch_result>>
    /\ UNCHANGED <<brain_vars, conf_vars, tta_vars, conc_vars, plan_vars>>

\* (mutant) the loop iteration without the all-zero and near-zero checks
MonthDataUnchecked(outcome) ==
    IF outcome.composite \in {"none", "error"} THEN <<>>
    ELSE Normalize(ResizeGrid(image_to_array(outcome.sample)))

\* the data one loop iteration writes, or nothing when it `continue`s
\* (<<>> stands for `continue`)
MonthData(outcome) ==
    IF outcome.composite \in {"none", "error"} THEN <<>>
    ELSE LET month_data == image_to_array(outcome.sample)
         IN IF DataMax(month_data) = 0 \/ DataSum(month_data) = 0 THEN <<>>
            ELSE LET scaled == Normalize(ResizeGrid(month_data))
                 IN IF DataMax(scaled) < 10 THEN <<>> ELSE scaled

\* (mutant) the month's bands appended to the stack instead of written into the slot
WriteSlotAppended(stack, slot_idx, month_data) ==
    LET n == Cardinality(DOMAIN stack)
    IN [c \in 0..(n + NUM_BANDS - 1) |-> IF c < n THEN stack[c] ELSE month_data[c - n + 1]]

\* (mutant) the slice has no end: image_stack[start_channel:] = month_data,
\* repeated over the channels that follow
WriteSlotOverrun(stack, slot_idx, month_data) ==
    LET start_channel == slot_idx * NUM_BANDS
    IN [c \in Channels |->
          IF c >= start_channel
          THEN month_data[((c - start_channel) % NUM_BANDS) + 1]
          ELSE stack[c]]

\* image_stack[start_channel:end_channel] = month_data
WriteSlot(stack, slot_idx, month_data) ==
    LET start_channel == slot_idx * NUM_BANDS
        end_channel == start_channel + NUM_BANDS
    IN [c \in Channels |->
          IF c >= start_channel /\ c < end_channel
          THEN month_data[c - start_channel + 1]
          ELSE stack[c]]

\* (mutant) no try/except around the loop body: a provider error leaves the call
MonthRaisesUncaught(outcome) == outcome.composite = "error"

\* does the iteration leave fetch_temporal_stack with an exception?  The body
\* is inside try / except Exception: ... continue, and _image_to_array
\* catches its own errors.
MonthRaises(outcome) == FALSE

\* (mutant) latest_month_data keeps the first month written
LatestMonthDataFirst(previous, month_data) ==
    IF previous = <<>> THEN month_data ELSE previous

\* latest_month_data = month_data
LatestMonthData(previous, month_data) == month_data

\* one iteration of the for loop over months_to_fetch
FetchMonth ==
    /\ fetch_pc = "loop"
    /\ next_month <= Len(months_to_fetch)
    /\ \E outcome \in ProviderOutcomes :
        LET entry == months_to_fetch[next_month]
            data == MonthData(outcome)
        IN /\ last_outcome' = outcome
           /\ fetch_pc' = IF MonthRaises(outcome) THEN "raised" ELSE "loop"
           /\ IF data = <<>>
              THEN UNCHANGED <<image_stack, availability_mask, latest_month_data>>
              ELSE /\ image_stack' = WriteSlot(image_stack, entry.slot, data)
                   /\ availability_mask' = [availability_mask EXCEPT ![entry.slot] = 1]
                   /\ latest_month_data' = LatestMonthData(latest_month_data, data)
    /\ next_month' = next_month + 1
    /\ UNCHANGED <<initialized, query_date, months_to_fetch, fetch_result>>
    /\ UNCHANGED <<brain_vars, conf_vars, tta_vars, conc_vars, plan_vars>>

\* after the loop: NDVI, growth stage, the result dictionary
FetchReturn ==
    /\ fetch_pc = "loop"
    /\ next_month > Len(months_to_fetch)
    /\ LET season == get_season_for_month(query_date.month)
           current_ndvi == IF latest_month_data # <<>> THEN NdviOf(latest_month_data) ELSE 0
       IN fetch_result' =
            [ image_stack |-> image_stack,
              availability_mask |-> availability_mask,
              months_available |-> SumSeq([i \in 1..NUM_MONTHS |-> availability_mask[i - 1]]),
              season |-> season,
              growth_stage |-> get_growth_stage(season, query_date.month),
              current_ndvi |-> current_ndvi,
              months_fetched |-> months_to_fetch,
              stack_shape |-> <<Cardinality(DOMAIN image_stack), ImgSize>> ]
    /\ fetch_pc' = "done"
    /\ UNCHANGED <<initialized, query_date, months_to_fetch, next_month, image_stack,
                   availability_mask, latest_month_data, last_outcome>>
    /\ UNCHANGED <<brain_vars, conf_vars, tta_vars, conc_vars, plan_vars>>

\* the caller is done with the result; the call's locals are gone
FetchDone ==
    /\ fetch_pc = "done"
    /\ fetch_pc' = "idle"
    /\ query_date' = NoDate
    /\ months_to_fetch' = <<>>
    /\ next_month' = 1
    /\ image_stack' = ZeroStack
    /\ availability_mask' = ZeroMask
    /\ latest_month_data' = <<>>
    /\ last_outcome' = NoOutcome
    /\ fetch_result' = NoResult
    /\ UNCHANGED <<initialized, brain_vars, conf_vars, tta_vars, conc_vars, plan_vars>>

FetchNext ==
    initialize_ee \/ FetchStart \/ FetchNotInitialized \/ FetchMonth \/ FetchReturn \/ FetchDone

\* ------------------------------------------------- CropClassifier
NoRun == [model |-> "", with_mask |-> FALSE, mask_input |-> ZeroMask, passes |-> 0,
          mask_arg |-> ZeroMask]
NoLog == [level |-> "none", msg |-> ""]
NoPrediction ==
    [ predicted_class |-> "", raw_prediction |-> "", class_index |-> 0, confidence |-> 0,
      probabilities |-> [c \in ClassSet |-> 0], confidence_level |-> "", model_used |-> "",
      months_available |-> 0, availability_mask |-> ZeroMask, data_quality |-> "",
      analysis_month |-> 0, season_validation |-> ValidationDisabled ]

Artifacts == {"missing", "corrupt", "ok"}

ClassifierNew ==
    /\ v4_artifact \in Artifacts
    /\ v6_artifact \in Artifacts
    /\ enable_season_validation \in BOOLEAN
    /\ clf_pc = "new"
    /\ model_v4 = FALSE
    /\ model_v6 = FALSE
    /\ predict_run = NoRun
    /\ predict_log = NoLog
    /\ predict_result = NoPrediction

\* (mutant) the except branch does not reset the model to None: a corrupt
\* checkpoint leaves the freshly built network in place
LoadOneKeepsCorrupt(artifact) == artifact # "missing"

\* one load of _load_models: the path exists and the checkpoint loads
LoadOne(artifact) == artifact = "ok"

\* (mutant) _load_models without the final raise: the constructor returns
\* a classifier with no model
LoadModelsNeverRaises ==
    /\ clf_pc = "new"
    /\ model_v4' = LoadOne(v4_artifact)
    /\ model_v6' = LoadOne(v6_artifact)
    /\ clf_pc' = "ready"
    /\ UNCHANGED <<v4_artifact, v6_artifact, enable_season_validation, predict_run,
                   predict_log, predict_result>>
    /\ UNCHANGED <<fetch_vars, conf_vars, tta_vars, conc_vars, plan_vars>>

\* __init__ / _load_models
LoadModels ==
    /\ clf_pc = "new"
    /\ model_v4' = LoadOne(v4_artifact)
    /\ model_v6' = LoadOne(v6_artifact)
    /\ clf_pc' = IF ~LoadOne(v4_artifact) /\ ~LoadOne(v6_artifact) THEN "failed" ELSE "ready"
    /\ UNCHANGED <<v4_artifact, v6_artifact, enable_season_validation, predict_run,
                   predict_log, predict_result>>
    /\ UNCHANGED <<fetch_vars, conf_vars, tta_vars, conc_vars, plan_vars>>

\* predict(image_stack, availability_mask, analysis_date, use_tta)
Predict ==
    /\ clf_pc = "ready"
    /\ \E mask \in Masks, analysis_month \in 1..12, use_tta \in BOOLEAN :
         LET sel == SelectModel(MaskSum(mask), model_v4, model_v6)
             registry == RegistryAfterPredict(sel, model_v4, model_v6)
         IN /\ model_v4' = registry[1]
            /\ model_v6' = registry[2]
            /\ IF sel.model = "raise"
               THEN /\ clf_pc' = "raised"
                    /\ UNCHANGED <<predict_run, predict_log, predict_result>>
               ELSE \E outs \in ModelOutputs(use_tta) :
                      /\ predict_run' = [model |-> sel.model, with_mask |-> sel.use_mask,
                                         mask_input |-> IF sel.use_mask THEN mask ELSE ZeroMask,
                                         passes |-> Len(outs),
                                         mask_arg |-> mask]
                      /\ predict_log' = sel.log
                      /\ predict_result' =
                           PredictResult(mask, analysis_month, AverageProbs(outs, use_tta),
                                         sel, enable_season_validation)
                      /\ clf_pc' = "returned"
    /\ UNCHANGED <<v4_artifact, v6_artifact, enable_season_validation>>
    /\ UNCHANGED <<fetch_vars, conf_vars, tta_vars, conc_vars, plan_vars>>

\* the caller is done with the result; the classifier is ready for the next call
PredictDone ==
    /\ clf_pc = "returned"
    /\ clf_pc' = "ready"
    /\ predict_run' = NoRun
    /\ predict_log' = NoLog
    /\ predict_result' = NoPrediction
    /\ UNCHANGED <<v4_artifact, v6_artifact, enable_season_validation, model_v4, model_v6>>
    /\ UNCHANGED <<fetch_vars, conf_vars, tta_vars, conc_vars, plan_vars>>

BrainNext == LoadModels \/ Predict \/ PredictDone

\* ------------------------------------------------- _get_confidence_level alone
ConfInit ==
    /\ cl_confidence \in 0..100
    /\ cl_months \in 0..NUM_MONTHS
    /\ cl_level = ""

ConfLevelCall ==
    /\ cl_level = ""
    /\ cl_level' = get_confidence_level(cl_confidence, cl_months)
    /\ UNCHANGED <<cl_confidence, cl_months>>
    /\ UNCHANGED <<fetch_vars, brain_vars, tta_vars, conc_vars, plan_vars>>

\* ------------------------------------------------- the ensemble of predict alone
NoProbs == [i \in 1..NUM_CLASSES |-> 0]

TtaInit ==
    /\ tta_pc = "ready"
    /\ tta_outputs \in [TtaVariants -> TtaVectors]
    /\ tta_avg_probs = NoProbs
    /\ tta_predicted_idx = 0

\* with torch.no_grad(): the loop over tta_variants in the order _apply_tta
\* built them, the division by len(tta_variants), torch.max
TtaEnsemble ==
    /\ tta_pc = "ready"
    /\ LET outs == [k \in 1..Len(apply_tta) |-> tta_outputs[apply_tta[k]]]
           avg_probs == AverageProbs(outs, TRUE)
       IN /\ tta_avg_probs' = avg_probs
          /\ tta_predicted_idx' = TorchMaxIdx(avg_probs)
    /\ tta_pc' = "done"
    /\ UNCHANGED tta_outputs
    /\ UNCHANGED <<fetch_vars, brain_vars, conf_vars, conc_vars, plan_vars>>

\* ------------------------------- fetch_temporal_stack, two calls at once
\* Calls on one fetcher, interleaved between loop iterations.  A call's
\* locals are its record in conc_calls; the arrays it allocated are the
\* entry of conc_buffers it owns.
NumCalls == 2
Calls == 1..NumCalls

ConcQueryDates ==
    { [year |-> MIN_YEAR, month |-> m, day |-> 15] : m \in {5, 6} }
ConcOutcomes ==
    { [composite |-> "none", sample |-> [ok |-> FALSE, grid |-> ZeroGrid(ImgSize)]],
      [composite |-> "image",
       sample |-> [ok |-> TRUE, grid |-> [b \in Bands |-> RampRow(ImgSize, 600 * b, 150)]]],
      [composite |-> "image",
       sample |-> [ok |-> TRUE, grid |-> [b \in Bands |-> RampRow(ImgSize + 1, 9000, 700 * b)]]] }

NoBuffer == [image_stack |-> ZeroStack, availability_mask |-> ZeroMask]
NoCall ==
    [ pc |-> "idle", query_date |-> NoDate, months_to_fetch |-> <<>>, next_month |-> 1,
      outcomes |-> <<>>, result |-> NoBuffer ]

\* (mutant) the stack and mask are kept on the fetcher and reused by every call
StackOwnerShared(call) == 1

\* image_stack = np.zeros(...), availability_mask = [0] * NUM_MONTHS: locals
\* of the call, allocated by it
StackOwner(call) == call

\* the fetcher the concurrent calls share: constructed, initialized
FetcherShared ==
    /\ initialized = TRUE
    /\ fetch_pc = "shared"
    /\ query_date = NoDate
    /\ months_to_fetch = <<>>
    /\ next_month = 1
    /\ image_stack = ZeroStack
    /\ availability_mask = ZeroMask
    /\ latest_month_data = <<>>
    /\ last_outcome = NoOutcome
    /\ fetch_result = NoResult

ConcInit ==
    /\ conc_calls = [c \in Calls |-> NoCall]
    /\ conc_buffers = [c \in Calls |-> NoBuffer]

\* a call enters fetch_temporal_stack: months enumerated, arrays allocated
ConcStart(call) ==
    /\ conc_calls[call].pc = "idle"
    /\ initialized
    /\ \E qd \in ConcQueryDates :
         conc_calls' =
            [conc_calls EXCEPT ![call] =
                [ pc |-> "loop", query_date |-> qd,
                  months_to_fetch |-> get_months_to_fetch(qd, get_season_for_month(qd.month)),
                  next_month |-> 1, outcomes |-> <<>>, result |-> NoBuffer ]]
    /\ conc_buffers' = [conc_buffers EXCEPT ![StackOwner(call)] = NoBuffer]
    /\ UNCHANGED <<fetch_vars, brain_vars, conf_vars, tta_vars, plan_vars>>

\* one loop iteration of one call
ConcMonth(call) ==
    LET my == conc_calls[call]
        buffer == conc_buffers[StackOwner(call)]
    IN /\ my.pc = "loop"
       /\ my.next_month <= Len(my.months_to_fetch)
       /\ \E outcome \in ConcOutcomes :
            LET entry == my.months_to_fetch[my.next_month]
                data == MonthData(outcome)
            IN /\ conc_calls' =
                    [conc_calls EXCEPT ![call] =
                        [my EXCEPT !.next_month = my.next_month + 1,
                                   !.outcomes = Append(my.outcomes, outcome)]]
               /\ conc_buffers' =
                    IF data = <<>> THEN conc_buffers
                    ELSE [conc_buffers EXCEPT ![StackOwner(call)] =
                            [ image_stack |-> WriteSlot(buffer.image_stack, entry.slot, data),
                              availability_mask |->
                                  [buffer.availability_mask EXCEPT ![entry.slot] = 1] ]]
       /\ UNCHANGED <<fetch_vars, brain_vars, conf_vars, tta_vars, plan_vars>>

\* the call returns its stack and mask
ConcReturn(call) ==
    LET my == conc_calls[call]
    IN /\ my.pc = "loop"
       /\ my.next_month > Len(my.months_to_fetch)
       /\ conc_calls' =
            [conc_calls EXCEPT ![call] =
                [my EXCEPT !.pc = "done", !.result = conc_buffers[StackOwner(call)]]]
       /\ UNCHANGED conc_buffers
       /\ UNCHANGED <<fetch_vars, brain_vars, conf_vars, tta_vars, plan_vars>>

ConcNext == \E call \in Calls : ConcStart(call) \/ ConcMonth(call) \/ ConcReturn(call)

\* ------------------------------------------------- WeeklyPlanner
NoPlanInput ==
    [ ndvi_deviation |-> 0, evi |-> NoIndex, ndwi |-> NoIndex, gndvi |-> NoIndex,
      days_since_irrigation |-> 0, days_since_fertilizer |-> 0 ]
NoPlan ==
    [ health_assessment |->
          [ status |-> "", urgency |-> "", irrigation_priority |-> "",
            fertilizer_priority |-> "", specific_issues |-> {} ],
      irrigation_summary |->
          [ health_urgency |-> "", status |-> "", health_based_override |-> FALSE,
            days_since_last |-> 0 ],
      fertilizer_summary |-> [ health_urgency |-> "", status |-> "", days_since_last |-> 0 ],
      overall_urgency |-> "" ]

\* WeeklyPlanner(crop, lat, lon)
PlannerNew ==
    /\ plan_crop \in PlannerCrops
    /\ plan_month \in 1..12
    /\ plan_pc = "ready"
    /\ plan_input = NoPlanInput
    /\ plan_result = NoPlan

\* generate_weekly_plan: the health assessment, the two schedules' urgencies
\* and the overall urgency of the returned plan
generate_weekly_plan ==
    /\ plan_pc = "ready"
    /\ \E ndvi_deviation \in PlanNdviDeviations, evi \in PlanEvi, ndwi \in PlanNdwi,
          gndvi \in PlanGndvi, days_irr \in PlanDaysSinceIrrigation,
          days_fert \in PlanDaysSinceFertilizer :
         LET health_assessment == assess_health_from_indices(ndvi_deviation, evi, ndwi, gndvi)
             irrigation == calculate_irrigation_schedule(days_irr, health_assessment)
             fertilizer ==
                 calculate_fertilizer_schedule(
                     days_fert,
                     fertilizer_interval(plan_crop, current_stage(plan_crop, plan_month)),
                     health_assessment)
         IN /\ plan_input' =
                 [ ndvi_deviation |-> ndvi_deviation, evi |-> evi, ndwi |-> ndwi,
                   gndvi |-> gndvi, days_since_irrigation |-> days_irr,
                   days_since_fertilizer |-> days_fert ]
            /\ IF UrgencyIndex(irrigation.health_urgency) < 0
                  \/ UrgencyIndex(fertilizer.health_urgency) < 0
               THEN /\ plan_pc' = "raised"
                    /\ plan_result' = NoPlan
               ELSE /\ plan_pc' = "returned"
                    /\ plan_result' =
                         [ health_assessment |-> health_assessment,
                           irrigation_summary |-> irrigation,
                           fertilizer_summary |-> fertilizer,
                           overall_urgency |->
                               MaxByUrgencyIndex(irrigation.health_urgency,
                                                 fertilizer.health_urgency) ]
    /\ UNCHANGED <<plan_crop, plan_month>>
    /\ UNCHANGED <<fetch_vars, brain_vars, conf_vars, tta_vars, conc_vars>>

\* the caller is done with the plan; the planner is ready for the next call
PlanDone ==
    /\ plan_pc = "returned"
    /\ plan_pc' = "ready"
    /\ plan_input' = NoPlanInput
    /\ plan_result' = NoPlan
    /\ UNCHANGED <<plan_crop, plan_month>>
    /\ UNCHANGED <<fetch_vars, brain_vars, conf_vars, tta_vars, conc_vars>>

PlannerNext == generate_weekly_plan \/ PlanDone

\* ------------------------------------------------- parts standing still
TtaIdle ==
    /\ tta_pc = "unused"
    /\ tta_outputs = [v \in TtaVariants |-> NoProbs]
    /\ tta_avg_probs = NoProbs
    /\ tta_predicted_idx = 0

ConcIdle ==
    /\ conc_calls = [c \in Calls |-> NoCall]
    /\ conc_buffers = [c \in Calls |-> NoBuffer]

PlanIdle ==
    /\ plan_pc = "unused"
    /\ plan_crop = ""
    /\ plan_month = 0
    /\ plan_input = NoPlanInput
    /\ plan_result = NoPlan

FetcherIdle ==
    /\ initialized = FALSE
    /\ fetch_pc = "unused"
    /\ query_date = NoDate
    /\ months_to_fetch = <<>>
    /\ next_month = 1
    /\ image_stack = ZeroStack
    /\ availability_mask = ZeroMask
    /\ latest_month_data = <<>>
    /\ last_outcome = NoOutcome
    /\ fetch_result = NoResult

BrainIdle ==
    /\ v4_artifact = "missing"
    /\ v6_artifact = "missing"
    /\ enable_season_validation = TRUE
    /\ clf_pc = "unused"
    /\ model_v4 = FALSE
    /\ model_v6 = FALSE
    /\ predict_run = NoRun
    /\ predict_log = NoLog
    /\ predict_result = NoPrediction

ConfIdle ==
    /\ cl_confidence = 0
    /\ cl_months = 0
    /\ cl_level = "unused"

\* ------------------------------------------------- properties of the Stacker
SlotGrid(stack, i) == [b \in Bands |-> stack[i * NUM_BANDS + b - 1]]
BandZero(row) == \A k \in 1..Len(row) : row[k] = 0
SlotAllZero(stack, i) == \A b \in Bands : BandZero(SlotGrid(stack, i)[b])
MonthJustProcessed == months_to_fetch[next_month - 1]
Fetching == fetch_pc \in {"loop", "done"}
\* the provider reported scenes, and every pixel it delivered is below the
\* near-zero threshold (0.001 after scaling, 10 raw), or sampling failed
ScenesButNoData(outcome) ==
    /\ outcome.composite = "image"
    /\ \/ ~outcome.sample.ok
       \/ \A v \in GridPixels(outcome.sample.grid) : v < 10

\* C1: in every returned result, availability_mask[i] = 1 exactly when slot i
\* holds non-zero data that passed validation (its scaled maximum reaches
\* 0.001), and a slot whose bit is 0 is all-zero; a month for which scenes
\* were reported but the grid was all-zero or near-zero is not marked
\* available and its slot stays all-zero.
C1_MaskIffValidatedData ==
    /\ fetch_pc = "done" =>
         \A i \in Slots :
            /\ fetch_result.availability_mask[i] \in {0, 1}
            /\ fetch_result.availability_mask[i] = 1
                 <=> DataMax(SlotGrid(fetch_result.image_stack, i)) >= 10
            /\ fetch_result.availability_mask[i] = 0
                 => SlotAllZero(fetch_result.image_stack, i)
    /\ (fetch_pc \in {"loop", "done"} /\ next_month > 1 /\ ScenesButNoData(last_outcome)) =>
         /\ availability_mask[MonthJustProcessed.slot] = 0
         /\ SlotAllZero(image_stack, MonthJustProcessed.slot)

\* a result with an available month, returned after a last month whose
\* scenes gave an all-zero grid
C1_Witness ==
    /\ fetch_pc = "done"
    /\ fetch_result.months_available >= 1
    /\ last_outcome.composite = "image"
    /\ last_outcome.sample.ok
    /\ last_outcome.sample.grid = ZeroGrid(ImgSize)
    /\ fetch_result.availability_mask[MonthJustProcessed.slot] = 0

\* C2 (as claimed): no returned slot mixes entirely-zero bands with non-zero
\* bands: a slot is all-zero with bit 0, or has bit 1 and no all-zero band
\* beside a non-zero one.
C2_NoPartialBandSlot ==
    fetch_pc = "done" =>
        \A i \in Slots :
            LET g == SlotGrid(fetch_result.image_stack, i)
            IN /\ fetch_result.availability_mask[i] = 0 => SlotAllZero(fetch_result.image_stack, i)
               /\ fetch_result.availability_mask[i] = 1 => ~SlotAllZero(fetch_result.image_stack, i)
               /\ ~(\E b1, b2 \in Bands : BandZero(g[b1]) /\ ~BandZero(g[b2]))

\* C3: whatever the months yield, the returned stack has exactly NUM_CHANNELS
\* channels of the image size, the mask has NUM_MONTHS entries in {0, 1},
\* months_available is the sum of the mask, a result without any available
\* month has an all-zero stack, and a call on an initialized fetcher never
\* ends in an error.
C3_FixedShape ==
    /\ initialized => fetch_pc # "raised"
    /\ fetch_pc = "done" =>
         /\ DOMAIN fetch_result.image_stack = Channels
         /\ \A c \in DOMAIN fetch_result.image_stack :
              Len(fetch_result.image_stack[c]) = ImgSize
         /\ fetch_result.stack_shape = <<NUM_CHANNELS, ImgSize>>
         /\ DOMAIN fetch_result.availability_mask = Slots
         /\ \A i \in Slots : fetch_result.availability_mask[i] \in {0, 1}
         /\ fetch_result.months_available =
              Cardinality({i \in Slots : fetch_result.availability_mask[i] = 1})
         /\ fetch_result.months_available \in 0..NUM_MONTHS
         /\ fetch_result.months_available = 0 => fetch_result.image_stack = ZeroStack

\* six months were tried, the last raised an error, none gave data, and the
\* call returned
C3_Witness ==
    /\ fetch_pc = "done"
    /\ Len(months_to_fetch) = NUM_MONTHS
    /\ last_outcome.composite = "error"
    /\ fetch_result.months_available = 0
    /\ fetch_result.image_stack = ZeroStack


\* the month gave nothing: no composite, an error, a failed extraction or an
\* all-zero grid
MissingMonth(outcome) ==
    \/ outcome.composite \in {"none", "error"}
    \/ ~outcome.sample.ok
    \/ DataMax(outcome.sample.grid) = 0

\* C15: a month without a composite, with an all-zero extraction, or whose
\* processing raised an error does not end the call with an error: its mask
\* bit stays 0 and its slot zero, the loop goes on, and the call returns only
\* after every enumerated month was processed.
C15_MissingMonthNotFatal ==
    /\ initialized => fetch_pc # "raised"
    /\ (Fetching /\ next_month > 1 /\ MissingMonth(last_outcome)) =>
          /\ availability_mask[MonthJustProcessed.slot] = 0
          /\ SlotAllZero(image_stack, MonthJustProcessed.slot)
    /\ fetch_pc = "loop" => next_month \in 1..(Len(months_to_fetch) + 1)
    /\ fetch_pc = "done" => next_month = Len(months_to_fetch) + 1

\* a call over six months returned: the fifth month gave nothing, the sixth
\* came after it and is available
C15_Witness ==
    /\ fetch_pc = "done"
    /\ Len(months_to_fetch) = NUM_MONTHS
    /\ fetch_result.availability_mask[4] = 0
    /\ fetch_result.availability_mask[5] = 1
    /\ ~MissingMonth(last_outcome)

\* C16: when the provider cannot be initialised the constructor raises; a
\* fetch on a fetcher that is not initialised raises; a fetch is under way or
\* has returned a result only on an initialised fetcher.
C16_MissingConnectionFatal ==
    /\ (fetch_pc # "new" /\ ~initialized) => fetch_pc \in {"init_raised", "raised"}
    /\ fetch_pc \in {"init_raised", "raised"} => ~initialized
    /\ Fetching => initialized
    /\ ~initialized =>
          /\ fetch_result = NoResult
          /\ image_stack = ZeroStack
          /\ months_to_fetch = <<>>

\* the constructor raised and the fetch on that object raised
C16_Witness ==
    /\ fetch_pc = "raised"
    /\ ~initialized
    /\ fetch_result = NoResult

\* C18 (as claimed): for a month whose composite exists the extractor tries
\* point sampling, then direct rectangular extraction, then thumbnail
\* decoding, in that order, stops at the first result whose maximum is
\* non-zero, and goes through all three before it gives up with an all-zero
\* grid; it does not raise and a month without an accepted result is not
\* marked available.
C18_ExtractorFallbackChain ==
    (Fetching /\ next_month > 1 /\ last_outcome.composite = "image") =>
        LET chain == <<"sample", "sampleRectangle", "getThumbURL">>
            attempted == image_to_array_strategies
            accepted == last_outcome.sample.ok /\ DataMax(last_outcome.sample.grid) # 0
        IN /\ Len(attempted) \in 1..Len(chain)
           /\ \A k \in 1..Len(attempted) : k <= Len(chain) => attempted[k] = chain[k]
           /\ ~accepted =>
                 /\ Len(attempted) = Len(chain)
                 /\ availability_mask[MonthJustProcessed.slot] = 0
           /\ fetch_pc # "raised"

\* C20: the NDVI of a returned result is the NDVI of the slot with the
\* highest index whose availability bit is 1, and 0 when no bit is 1; the
\* returned stack and mask are the ones the loop left.
C20_NdviFromLatestSlot ==
    fetch_pc = "done" =>
        LET filled == {i \in Slots : fetch_result.availability_mask[i] = 1}
        IN /\ filled = {} => fetch_result.current_ndvi = 0
           /\ filled # {} =>
                 fetch_result.current_ndvi
                     = NdviOf(SlotGrid(fetch_result.image_stack, MaxOf(filled)))
           /\ fetch_result.image_stack = image_stack
           /\ fetch_result.availability_mask = availability_mask

\* two slots are filled with data of different NDVI and the result reports
\* the NDVI of the later one
C20_Witness ==
    /\ fetch_pc = "done"
    /\ \E i, j \in Slots :
          /\ i < j
          /\ fetch_result.availability_mask[i] = 1
          /\ fetch_result.availability_mask[j] = 1
          /\ \A k \in Slots : k > j => fetch_result.availability_mask[k] = 0
          /\ NdviOf(SlotGrid(fetch_result.image_stack, i))
                # NdviOf(SlotGrid(fetch_result.image_stack, j))
          /\ fetch_result.current_ndvi = NdviOf(SlotGrid(fetch_result.image_stack, j))
          /\ fetch_result.current_ndvi # 0

\* ------------------------------------- properties of the Season Calendar
\* and of the month enumeration
MonthIndex(d) == d.year * 12 + d.month
QuerySeason == get_season_for_month(query_date.month)

\* C11: every month 1..12 has a season, one of the two, and a slot in 0..5 in
\* that season's mapping; each season's mapping is defined on exactly its six
\* months and numbers them 0..5 in chronological order (Rice May..Oct, Wheat
\* Nov..Apr), so it is a bijection; the slots of the months a fetch enumerates
\* are the ones of that mapping and increase strictly.
C11_SeasonCalendar ==
    /\ \A m \in 1..12 :
          LET season == get_season_for_month(m)
              map == get_season_month_mapping(season)
          IN /\ season \in {"Rice", "Wheat"}
             /\ season = "Rice" <=> m \in 5..10
             /\ m \in DOMAIN map
             /\ map[m] \in 0..5
    /\ \A season \in {"Rice", "Wheat"} :
          LET chrono == IF season = "Rice" THEN <<5, 6, 7, 8, 9, 10>>
                                          ELSE <<11, 12, 1, 2, 3, 4>>
              map == get_season_month_mapping(season)
          IN /\ DOMAIN map = {chrono[k] : k \in 1..6}
             /\ \A k \in 1..6 : map[chrono[k]] = k - 1
             /\ {map[m] : m \in DOMAIN map} = 0..5
             /\ \A m1, m2 \in DOMAIN map : map[m1] = map[m2] => m1 = m2
    /\ Fetching =>
          /\ \A k \in 1..Len(months_to_fetch) :
                months_to_fetch[k].slot
                    = get_season_month_mapping(QuerySeason)[months_to_fetch[k].month]
          /\ \A k \in 1..(Len(months_to_fetch) - 1) :
                /\ months_to_fetch[k].slot < months_to_fetch[k + 1].slot
                /\ MonthIndex(months_to_fetch[k]) < MonthIndex(months_to_fetch[k + 1])
    /\ fetch_pc = "done" => fetch_result.season = QuerySeason

\* an April query returned: six months enumerated, January in slot 2 and
\* filled
C11_Witness ==
    /\ fetch_pc = "done"
    /\ query_date.month = 4
    /\ Len(months_to_fetch) = 6
    /\ months_to_fetch[3].month = 1
    /\ months_to_fetch[3].slot = 2
    /\ fetch_result.availability_mask[2] = 1
    /\ fetch_result.season = "Wheat"

\* C13: every (year, month) a fetch enumerates is not later than the query
\* date's (year, month); the months the loop processes and the months the
\* result reports are the enumerated ones.
C13_NoFutureMonth ==
    /\ Fetching =>
          \A k \in 1..Len(months_to_fetch) :
              MonthIndex(months_to_fetch[k]) <= MonthIndex(query_date)
    /\ fetch_pc = "done" => fetch_result.months_fetched = months_to_fetch

\* a July query returned with May, June and July enumerated
C13_Witness ==
    /\ fetch_pc = "done"
    /\ query_date.month = 7
    /\ Len(fetch_result.months_fetched) = 3
    /\ fetch_result.months_fetched[3].month = 7
    /\ fetch_result.months_fetched[3].year = query_date.year

\* C14: in the wheat season the start year N is the query's year for a
\* November or December query and the year before for a January..April
\* query; enumerated November and December carry year N, January..April
\* year N + 1; a January..April query enumerates November and December of
\* the year before; no enumerated month is later than the query month or
\* more than 5 months before it.
C14_WheatYearBoundary ==
    (Fetching /\ QuerySeason = "Wheat") =>
        LET N == IF query_date.month \in {11, 12} THEN query_date.year
                 ELSE query_date.year - 1
        IN /\ \A k \in 1..Len(months_to_fetch) :
                 LET e == months_to_fetch[k]
                 IN /\ e.month \in {11, 12} => e.year = N
                    /\ e.month \in 1..4 => e.year = N + 1
                    /\ e.month \in {11, 12} \cup (1..4)
                    /\ MonthIndex(query_date) - MonthIndex(e) \in 0..5
           /\ query_date.month \in 1..4 =>
                 /\ Len(months_to_fetch) >= 2
                 /\ months_to_fetch[1].year = N /\ months_to_fetch[1].month = 11
                 /\ months_to_fetch[2].year = N /\ months_to_fetch[2].month = 12
           /\ (query_date.month \in {11, 12} /\ query_date.day >= 15) =>
                 /\ Len(months_to_fetch) >= 1
                 /\ months_to_fetch[Len(months_to_fetch)].year = query_date.year
                 /\ months_to_fetch[Len(months_to_fetch)].month = query_date.month

\* a query of 15 January returned: December of the year before and January of
\* the query's year enumerated
C14_Witness ==
    /\ fetch_pc = "done"
    /\ query_date.month = 1
    /\ query_date.day = 15
    /\ Len(months_to_fetch) = 3
    /\ months_to_fetch[2].month = 12
    /\ months_to_fetch[2].year = query_date.year - 1
    /\ months_to_fetch[3].month = 1
    /\ months_to_fetch[3].year = query_date.year

\* the position of a month in its season, counted from the season's first
\* month: May..October 0..5, November..April 0..5
ChronoSlot(month) ==
    CASE month \in 5..10 -> month - 5
      [] month \in {11, 12} -> month - 11
      [] OTHER -> month + 1

\* the loop `continue`s on this outcome: no composite, an error, a failed or
\* all-zero extraction, or nothing above the near-zero threshold
Skipped(outcome) == MissingMonth(outcome) \/ ScenesButNoData(outcome)

\* one loop iteration writes the four channels and the bit of the month's
\* Season Calendar slot, a slot not written before, and nothing else; a
\* skipped month writes nothing
SlotWriteStep ==
    (fetch_pc = "loop" /\ next_month' = next_month + 1) =>
       LET entry == months_to_fetch[next_month]
           slot == get_season_month_mapping(QuerySeason)[entry.month]
           slot_channels == (NUM_BANDS * slot)..(NUM_BANDS * slot + NUM_BANDS - 1)
       IN /\ entry.slot = slot
          /\ \A c \in Channels \ slot_channels : image_stack'[c] = image_stack[c]
          /\ \A i \in Slots \ {slot} : availability_mask'[i] = availability_mask[i]
          /\ DOMAIN image_stack' = Channels
          /\ availability_mask[slot] = 0
          /\ SlotAllZero(image_stack, slot)
          /\ Skipped(last_outcome') =>
                (image_stack' = image_stack /\ availability_mask' = availability_mask)
          /\ ~Skipped(last_outcome') =>
                /\ availability_mask'[slot] = 1
                /\ ~SlotAllZero(image_stack', slot)

\* C25: filling month m writes exactly channels 4*slot(m) .. 4*slot(m)+3 and
\* mask[slot(m)], slot(m) being the Season Calendar slot of m, and leaves
\* every other channel and bit unchanged; a skipped month changes nothing;
\* no slot is written twice within one build.
C25_SlotWritesDisjoint == [][SlotWriteStep]_vars

C25_Witness ==
    /\ fetch_pc = "loop"
    /\ next_month = 3
    /\ ~Skipped(last_outcome)
    /\ availability_mask[0] = 1
    /\ availability_mask[1] = 1
    /\ SlotGrid(image_stack, 0) # SlotGrid(image_stack, 1)
    /\ \A i \in Slots : i > 1 => SlotAllZero(image_stack, i)

\* C26 (as claimed): for every query date the enumerated months are the
\* season's months from its first through the query's own calendar month,
\* whatever the day: the query month is the last one enumerated, and every
\* query date of the same month and year enumerates the same months.
C26_QueryMonthEnumerated ==
    Fetching =>
       /\ Len(months_to_fetch) = ChronoSlot(query_date.month) + 1
       /\ months_to_fetch[Len(months_to_fetch)].month = query_date.month
       /\ months_to_fetch[Len(months_to_fetch)].year = query_date.year
       /\ \A d \in QueryDates :
             (d.year = query_date.year /\ d.month = query_date.month) =>
                get_months_to_fetch(d, QuerySeason) = months_to_fetch

\* C27: in every returned stack the slots after the query month's slot are
\* unavailable and all-zero, so months_available <= slot(query month) + 1,
\* and five or more months are available only for a query in the last two
\* months of a season (September, October, March, April).
C27_LaterSlotsEmpty ==
    fetch_pc = "done" =>
       /\ \A j \in Slots :
             j > ChronoSlot(query_date.month) =>
                /\ fetch_result.availability_mask[j] = 0
                /\ SlotAllZero(fetch_result.image_stack, j)
       /\ fetch_result.months_available <= ChronoSlot(query_date.month) + 1
       /\ fetch_result.months_available >= MIN_MONTHS_FOR_V4 =>
             query_date.month \in {9, 10, 3, 4}

C27_Witness ==
    /\ fetch_pc = "done"
    /\ query_date.month = 3
    /\ query_date.day = 15
    /\ fetch_result.months_available = MIN_MONTHS_FOR_V4
    /\ fetch_result.availability_mask[5] = 0
    /\ SlotAllZero(fetch_result.image_stack, 5)

\* ------------------------------------------------- properties of the Brain
Returned == clf_pc = "returned"
Count == predict_result.months_available
FullMask == [s \in Slots |-> 1]
HalfMask == [s \in Slots |-> IF s <= 2 THEN 1 ELSE 0]
TierRank(level) == CASE level = "low" -> 0 [] level = "medium" -> 1 [] level = "high" -> 2
MaxProbability == MaxOf({predict_result.probabilities[c] : c \in ClassSet})
\* the classes valid in a month: the crop of the month's season, and 'Other'
SeasonCrops(month) == IF month \in 5..10 THEN {"Rice", "Other"} ELSE {"Wheat", "Other"}
RanV4Alone == predict_run.model = "model_v4" /\ ~predict_run.with_mask
RanV6WithMask ==
    /\ predict_run.model = "model_v6"
    /\ predict_run.with_mask
    /\ predict_run.mask_input = predict_result.availability_mask

\* C4: predict chooses by count = sum(mask) and by the loaded models: count >= 5
\* with V4 loaded runs V4 on the stack alone; count < 5 with V6 loaded runs V6
\* on stack plus mask; count < 5 with V6 absent runs V4; count >= 5 with V4
\* absent runs V6; model_used names the model that ran.
C4_ModelSelection ==
    Returned =>
        /\ Count = Cardinality({i \in Slots : predict_result.availability_mask[i] = 1})
        /\ (Count >= 5 /\ model_v4) => RanV4Alone
        /\ (Count < 5 /\ model_v6) => RanV6WithMask
        /\ (Count < 5 /\ ~model_v6 /\ model_v4) => RanV4Alone
        /\ (Count >= 5 /\ ~model_v4 /\ model_v6) => RanV6WithMask
        /\ predict_result.model_used = "V4" <=> predict_run.model = "model_v4"
        /\ predict_result.model_used = "V6" <=> predict_run.model = "model_v6"
        /\ predict_result.model_used \in {"V4", "V6"}

\* exactly five months, both models loaded, V4 ran
C4_Witness ==
    /\ Returned
    /\ Count = 5
    /\ model_v4 /\ model_v6
    /\ predict_result.model_used = "V4"

\* C5: a fallback to V4 below 5 months, V6 being absent, is flagged by the
\* call's warning record; V4 chosen normally at 5 months or more produces no
\* such record.
C5_FallbackFlagged ==
    Returned =>
        /\ (Count < 5 /\ ~model_v6 /\ predict_run.model = "model_v4")
             => /\ predict_log.level = "warning"
                /\ predict_log.msg = "V6 unavailable, falling back to V4"
        /\ (Count >= 5 /\ predict_run.model = "model_v4")
             => predict_log.level # "warning"

\* V4 ran on three months because V6 is absent, with the warning
C5_Witness ==
    /\ Returned
    /\ Count = 3
    /\ ~model_v6
    /\ predict_run.model = "model_v4"
    /\ predict_log.level = "warning"

\* C6: with season validation enabled, a raw arg-max class outside the month's
\* valid classes is replaced by the most probable valid class; the raw class
\* is kept in raw_prediction and original_prediction, was_adjusted is true and
\* the adjustment reason is not empty.
C6_SeasonCorrection ==
    (Returned /\ enable_season_validation
        /\ predict_result.raw_prediction \notin SeasonCrops(predict_result.analysis_month)) =>
        LET valid == SeasonCrops(predict_result.analysis_month)
            sv == predict_result.season_validation
        IN /\ predict_result.predicted_class \in valid
           /\ \A c \in valid : predict_result.probabilities[c]
                                 <= predict_result.probabilities[predict_result.predicted_class]
           /\ predict_result.probabilities[predict_result.raw_prediction] = MaxProbability
           /\ sv.original_prediction = predict_result.raw_prediction
           /\ sv.was_adjusted
           /\ "adjustment_reason" \in sv.keys
           /\ sv.adjustment_reason # <<>>

\* a wheat answer in July corrected to rice
C6_Witness ==
    /\ Returned
    /\ enable_season_validation
    /\ predict_result.analysis_month = 7
    /\ predict_result.raw_prediction = "Wheat"
    /\ predict_result.predicted_class = "Rice"
    /\ predict_result.probabilities["Rice"] > predict_result.probabilities["Other"]
    /\ predict_result.season_validation.was_adjusted

\* C7: a raw arg-max class valid for the month passes through: predicted_class
\* is the raw class, was_adjusted is false, no adjustment reason is given and
\* the confidence is the raw maximum probability; with the full mask and both
\* models loaded the call runs the full-season model.
C7_SeasonPassThrough ==
    /\ (Returned /\ predict_result.raw_prediction \in SeasonCrops(predict_result.analysis_month)) =>
        /\ predict_result.predicted_class = predict_result.raw_prediction
        /\ ~predict_result.season_validation.was_adjusted
        /\ predict_result.season_validation.adjustment_reason = <<>>
        /\ predict_result.confidence = MaxProbability
        /\ predict_result.probabilities[predict_result.raw_prediction] = MaxProbability
    /\ (Returned /\ predict_result.availability_mask = FullMask /\ model_v4 /\ model_v6) =>
        /\ RanV4Alone
        /\ predict_result.model_used = "V4"

\* a rice answer in July on the full mask, both models loaded
C7_Witness ==
    /\ Returned
    /\ enable_season_validation
    /\ model_v4 /\ model_v6
    /\ predict_result.availability_mask = FullMask
    /\ predict_result.analysis_month = 7
    /\ predict_result.raw_prediction = "Rice"
    /\ predict_result.predicted_class = "Rice"
    /\ predict_result.model_used = "V4"

\* C8: the confidence tier never falls as the count of months grows: for the
\* confidence and count of a call, every larger count gives a tier at least
\* as high and every smaller count a tier at most as high.
C8_TierMonotonicInCount ==
    cl_level \in {"low", "medium", "high"} =>
        \A c \in 0..NUM_MONTHS :
            /\ cl_months <= c =>
                 TierRank(cl_level) <= TierRank(get_confidence_level(cl_confidence, c))
            /\ c <= cl_months =>
                 TierRank(get_confidence_level(cl_confidence, c)) <= TierRank(cl_level)

\* a confidence that is medium at count 2 and high at count 6
C8_Witness ==
    /\ cl_months = 2
    /\ cl_level = "medium"
    /\ get_confidence_level(cl_confidence, 6) = "high"

StructurallyValid(r) ==
    /\ r.predicted_class \in ClassSet
    /\ r.raw_prediction \in ClassSet
    /\ DOMAIN r.probabilities = ClassSet
    /\ \A c \in ClassSet : r.probabilities[c] \in 0..100
    /\ r.class_index \in 0..(NUM_CLASSES - 1)
    /\ IDX_TO_CLASS(r.class_index) = r.predicted_class
    /\ r.model_used \in {"V4", "V6"}
    /\ r.confidence_level \in {"low", "medium", "high"}
    /\ {"was_adjusted", "is_seasonally_valid"} \subseteq r.season_validation.keys

\* C9 (as claimed): with the all-zero mask predict returns a structurally valid
\* result whose confidence tier is 'low' whatever the model outputs.
C9_ZeroMaskTierLow ==
    (Returned /\ predict_result.availability_mask = ZeroMask) =>
        /\ StructurallyValid(predict_result)
        /\ predict_result.confidence_level = "low"

\* C9 (amended): with the all-zero mask predict does not fail and returns a
\* structurally valid result whose tier is taken with the strictest
\* thresholds: 'low' exactly when the confidence is below 0.80, 'high'
\* exactly when it reaches 0.95.
C9_ZeroMaskStrictestTier ==
    /\ clf_pc # "raised"
    /\ (Returned /\ predict_result.availability_mask = ZeroMask) =>
        /\ StructurallyValid(predict_result)
        /\ predict_result.months_available = 0
        /\ predict_result.confidence_level = "low" <=> predict_result.confidence < 80
        /\ predict_result.confidence_level = "high" <=> predict_result.confidence >= 95

\* the all-zero mask, the model sure of 'Other': the tier is 'high'
C9_Witness ==
    /\ Returned
    /\ predict_result.availability_mask = ZeroMask
    /\ predict_result.predicted_class = "Other"
    /\ predict_result.confidence = 100
    /\ predict_result.confidence_level = "high"

\* C10: with mask [1,1,1,0,0,0] and V6 loaded, predict runs V6 with the mask
\* as side input and takes the tier with the partial-data thresholds 0.90 and
\* 0.75, which lie strictly above the thresholds of counts >= 5; so the tier is
\* never above the tier of the same confidence at count 6, and some
\* confidences earn a lower tier at count 3 than at count 6.
C10_PartialDataThresholds ==
    /\ HIGH_CONFIDENCE_THRESHOLD < 90
    /\ MEDIUM_CONFIDENCE_THRESHOLD < 75
    /\ \E p \in 0..100 :
         /\ get_confidence_level(p, 6) = "high"
         /\ get_confidence_level(p, 3) = "medium"
    /\ \E p \in 0..100 :
         /\ get_confidence_level(p, 6) = "medium"
         /\ get_confidence_level(p, 3) = "low"
    /\ (Returned /\ predict_result.availability_mask = HalfMask /\ model_v6) =>
        /\ RanV6WithMask
        /\ predict_result.model_used = "V6"
        /\ predict_result.confidence_level = "high" <=> predict_result.confidence >= 90
        /\ predict_result.confidence_level = "low" <=> predict_result.confidence < 75
        /\ TierRank(predict_result.confidence_level)
             <= TierRank(get_confidence_level(predict_result.confidence, NUM_MONTHS))

\* mask [1,1,1,0,0,0], V6 ran with it, and a confidence that is 'medium' on
\* full data is 'low' here
C10_Witness ==
    /\ Returned
    /\ predict_result.availability_mask = HalfMask
    /\ RanV6WithMask
    /\ predict_result.confidence_level = "low"
    /\ get_confidence_level(predict_result.confidence, NUM_MONTHS) = "medium"

\* C12: for every month the valid classes are the crop of the month's season
\* and 'Other', never the crop of the other season, and
\* is_crop_valid_for_season agrees with that set; the season-validation
\* record of a prediction lists that set for the analysis month and judges
\* the raw prediction by it.
C12_ValidClassSet ==
    /\ \A m \in 1..12 :
          LET valid == SeqToSet(get_valid_crops_for_season(m))
              active == get_season_for_month(m)
              inactive == IF m \in 5..10 THEN "Wheat" ELSE "Rice"
          IN /\ valid = {active, "Other"}
             /\ valid = SeasonCrops(m)
             /\ "Other" \in valid
             /\ inactive \notin valid
             /\ \A c \in ClassSet : is_crop_valid_for_season(c, m) <=> c \in SeasonCrops(m)
    /\ (Returned /\ enable_season_validation) =>
          /\ SeqToSet(predict_result.season_validation.valid_crops)
                = SeasonCrops(predict_result.analysis_month)
          /\ predict_result.season_validation.is_seasonally_valid
                <=> predict_result.raw_prediction \in SeasonCrops(predict_result.analysis_month)

\* a December prediction whose raw class is Rice: judged not valid against
\* {Wheat, Other}
C12_Witness ==
    /\ Returned
    /\ enable_season_validation
    /\ predict_result.analysis_month = 12
    /\ predict_result.raw_prediction = "Rice"
    /\ ~predict_result.season_validation.is_seasonally_valid
    /\ SeqToSet(predict_result.season_validation.valid_crops) = {"Wheat", "Other"}

\* C17: after construction each model is loaded exactly when its own artifact
\* is present and loads, whatever the other artifact is; the constructor
\* raises exactly when neither model loaded.
C17_IndependentLoads ==
    clf_pc \notin {"new", "unused"} =>
        /\ model_v4 <=> v4_artifact = "ok"
        /\ model_v6 <=> v6_artifact = "ok"
        /\ clf_pc = "failed" <=> (~model_v4 /\ ~model_v6)
        /\ clf_pc # "failed" => (model_v4 \/ model_v6)

\* the V4 artifact is corrupt, V6 loaded and the classifier is ready
C17_Witness ==
    /\ clf_pc = "ready"
    /\ v4_artifact = "corrupt"
    /\ ~model_v4
    /\ model_v6

\* the crop of the month's season
SeasonCrop(month) == IF month \in 5..10 THEN "Rice" ELSE "Wheat"

\* C21: when the raw class is invalid for the season and every valid class has
\* probability zero, the corrected prediction is 'Other', never the season's
\* crop, and was_adjusted is True.
C21_DefaultsToOther ==
    ( /\ Returned
      /\ enable_season_validation
      /\ predict_result.raw_prediction \notin SeasonCrops(predict_result.analysis_month)
      /\ \A c \in SeasonCrops(predict_result.analysis_month) :
            predict_result.probabilities[c] = 0 )
    => /\ predict_result.predicted_class = "Other"
       /\ predict_result.predicted_class # SeasonCrop(predict_result.analysis_month)
       /\ predict_result.season_validation.final_prediction = "Other"
       /\ predict_result.season_validation.was_adjusted

C21_Witness ==
    /\ Returned
    /\ enable_season_validation
    /\ predict_result.analysis_month = 8
    /\ predict_result.raw_prediction = "Wheat"
    /\ predict_result.probabilities["Wheat"] = 100
    /\ predict_result.probabilities["Rice"] = 0
    /\ predict_result.probabilities["Other"] = 0
    /\ predict_result.predicted_class = "Other"
    /\ predict_result.season_validation.was_adjusted

\* C22: the confidence of a result is the probability of its final class (the
\* corrected class after a season correction, the raw arg-max otherwise), and
\* its confidence level is _get_confidence_level of that confidence and of
\* count = sum(mask).
C22_TierFromFinalClass ==
    Returned =>
      /\ predict_result.predicted_class =
            ( IF predict_result.season_validation.was_adjusted
              THEN predict_result.season_validation.final_prediction
              ELSE predict_result.raw_prediction )
      /\ predict_result.confidence =
            predict_result.probabilities[predict_result.predicted_class]
      /\ predict_result.confidence_level =
            get_confidence_level(predict_result.confidence, MaskSum(predict_run.mask_arg))

C22_Witness ==
    /\ Returned
    /\ predict_result.season_validation.was_adjusted
    /\ MaskSum(predict_run.mask_arg) = NUM_MONTHS
    /\ predict_result.probabilities[predict_result.raw_prediction] >= HIGH_CONFIDENCE_THRESHOLD
    /\ predict_result.confidence < predict_result.probabilities[predict_result.raw_prediction]
    /\ predict_result.confidence_level = "low"

\* one step of a constructed classifier leaves the registry alone, and a
\* returning predict leaves its mask alone and ran the model the registry
\* selects for that mask
PredictReadOnlyStep ==
    clf_pc \in {"ready", "returned", "raised"} =>
      /\ model_v4' = model_v4
      /\ model_v6' = model_v6
      /\ v4_artifact' = v4_artifact
      /\ v6_artifact' = v6_artifact
      /\ (clf_pc = "ready" /\ clf_pc' = "returned") =>
            /\ predict_result'.availability_mask = predict_run'.mask_arg
            /\ predict_result'.months_available = MaskSum(predict_run'.mask_arg)
            /\ predict_run'.model =
                 SelectModel(MaskSum(predict_run'.mask_arg), model_v4', model_v6').model

C28_CorrectedIsLow ==
    (Returned /\ predict_result.season_validation.was_adjusted) =>
      /\ predict_result.confidence =
            predict_result.probabilities[predict_result.season_validation.final_prediction]
      /\ predict_result.confidence <=
            predict_result.probabilities[predict_result.raw_prediction]
      /\ 2 * predict_result.confidence <= 100
      /\ predict_result.confidence_level = "low"

C28_Witness ==
    /\ Returned
    /\ predict_result.season_validation.was_adjusted
    /\ predict_result.analysis_month = 12
    /\ predict_result.raw_prediction = "Rice"
    /\ predict_result.predicted_class = "Wheat"
    /\ predict_result.confidence = 50
    /\ Count = NUM_MONTHS
    /\ predict_result.confidence_level = "low"

\* is_ready()
is_ready == model_v4 \/ model_v6

\* C29: a classifier whose construction succeeded has a model loaded in every
\* state, so predict never raises 'No suitable model available': for every
\* mask the selection picks a model.
C29_AlwaysAModel ==
    /\ clf_pc \in {"ready", "returned", "raised"} => is_ready
    /\ clf_pc # "raised"
    /\ clf_pc = "ready" =>
         \A mask \in Masks : SelectModel(MaskSum(mask), model_v4, model_v6).model # "raise"

C29_Witness ==
    /\ Returned
    /\ ~model_v4 /\ model_v6
    /\ predict_run.mask_arg = FullMask
    /\ predict_run.model = "model_v6"

\* ------------------------------------------------- properties of the ensemble
TtaOrders == {f \in [1..Len(apply_tta) -> 1..Len(apply_tta)] :
                \A a, b \in 1..Len(apply_tta) : f[a] = f[b] => a = b}

RECURSIVE RunAlone(_, _, _)
RunAlone(months, outcomes, k) ==
    IF k = 0 THEN NoBuffer
    ELSE LET before == RunAlone(months, outcomes, k - 1)
             data == MonthData(outcomes[k])
         IN IF data = <<>> THEN before
            ELSE [ image_stack |-> WriteSlot(before.image_stack, months[k].slot, data),
                   availability_mask |->
                       [before.availability_mask EXCEPT ![months[k].slot] = 1] ]

\* C24: when fetch_temporal_stack calls on one fetcher interleave between
\* months, the stack and mask of each call, while it runs and when it
\* returns, are the ones it would have running alone on its own months'
\* outcomes: no write of another call shows in them.
C24_StacksNotShared ==
    \A call \in Calls :
        LET my == conc_calls[call]
        IN /\ my.pc = "loop" =>
                conc_buffers[call] = RunAlone(my.months_to_fetch, my.outcomes, Len(my.outcomes))
           /\ my.pc = "done" =>
                /\ Len(my.outcomes) = Len(my.months_to_fetch)
                /\ my.result = RunAlone(my.months_to_fetch, my.outcomes, Len(my.outcomes))

\* both calls are between their first and their second month, each with its
\* own data in slot 0 of its own stack
C24_Witness ==
    /\ \A call \in {1, 2} :
          /\ conc_calls[call].pc = "loop"
          /\ conc_calls[call].next_month = 2
          /\ Len(conc_calls[call].months_to_fetch) = 2
          /\ conc_buffers[call].availability_mask[0] = 1
    /\ SlotGrid(conc_buffers[1].image_stack, 0) # SlotGrid(conc_buffers[2].image_stack, 0)

\* ------------------------------------- properties of the Weekly Planner
\* the order none < normal < high < urgent < immediate
UrgencyRank(label) ==
    CASE label = "none" -> 0
      [] label = "normal" -> 1
      [] label = "high" -> 2
      [] label = "urgent" -> 3
      [] label = "immediate" -> 4
      [] OTHER -> -1

\* C30: overall_urgency is the greater of the irrigation and the fertilizer
\* health_urgency in the order none < normal < high < urgent < immediate;
\* both schedules only produce labels of that order, so the comparison
\* never fails on an unknown label.
C30_OverallUrgency ==
    /\ plan_pc # "raised"
    /\ plan_pc = "returned" =>
         LET irr == plan_result.irrigation_summary.health_urgency
             fert == plan_result.fertilizer_summary.health_urgency
             overall == plan_result.overall_urgency
         IN /\ UrgencyRank(irr) >= 0
            /\ UrgencyRank(fert) >= 0
            /\ overall \in {irr, fert}
            /\ UrgencyRank(overall) >= UrgencyRank(irr)
            /\ UrgencyRank(overall) >= UrgencyRank(fert)

C30_Witness ==
    /\ plan_pc = "returned"
    /\ plan_result.health_assessment.urgency = "critical"
    /\ plan_result.irrigation_summary.health_urgency = "none"
    /\ plan_result.fertilizer_summary.health_urgency = "urgent"
    /\ plan_result.overall_urgency = "urgent"

\* ------------------------------------------------- specifications
\* the Stacker
Init == FetcherInit /\ BrainIdle /\ ConfIdle /\ TtaIdle /\ ConcIdle /\ PlanIdle
Next == FetchNext
Spec == Init /\ [][Next]_vars

\* the Brain
InitBrain == FetcherIdle /\ ClassifierNew /\ ConfIdle /\ TtaIdle /\ ConcIdle /\ PlanIdle
NextBrain == BrainNext
SpecBrain == InitBrain /\ [][NextBrain]_vars

\* _get_confidence_level on every confidence and count
InitConf == FetcherIdle /\ BrainIdle /\ ConfInit /\ TtaIdle /\ ConcIdle /\ PlanIdle
NextConf == ConfLevelCall
SpecConf == InitConf /\ [][NextConf]_vars

\* the ensemble averaging of predict, over all outputs of the four passes
InitTta == FetcherIdle /\ BrainIdle /\ ConfIdle /\ TtaInit /\ ConcIdle /\ PlanIdle
NextTta == TtaEnsemble
SpecTta == InitTta /\ [][NextTta]_vars

\* two interleaved fetches on one fetcher
InitConc == FetcherShared /\ BrainIdle /\ ConfIdle /\ TtaIdle /\ ConcInit /\ PlanIdle
NextConc == ConcNext
SpecConc == InitConc /\ [][NextConc]_vars

\* the Weekly Planner
InitPlanner == FetcherIdle /\ BrainIdle /\ ConfIdle /\ TtaIdle /\ ConcIdle /\ PlannerNew
NextPlanner == PlannerNext
SpecPlanner == InitPlanner /\ [][NextPlanner]_vars
====
